---- MODULE Spec2Model ----
(***************************************************************************)
(* Material-Management-System: the generator windows (delivery note,       *)
(* dispatch note, material list), the currency handler and the header log. *)
(*                                                                         *)
(* Text is a sequence of one-character strings, so that formatting,        *)
(* parsing, slicing and substring search are computed as the Python code   *)
(* computes them.  A Python float is an IEEE-754 double: a sign, a 53-bit  *)
(* significand held as a multi-limb natural, and a binary exponent.        *)
(***************************************************************************)
EXTENDS Integers, Sequences, FiniteSets, TLC

VARIABLES
    phase,            \* which operation ran last (an observation label)
    docType,          \* "delivery" | "dispatch" | "material": the window class
    products,         \* BaseGenerator.products: the catalog
    loaded,           \* the catalog as the last load or upload produced it
    combo_display_list,
    combo_values,     \* self.combo['values']
    typed,            \* the text of the search box
    detail_frames,    \* children of detail_frame: [product, checked]
    item_tree,        \* rows of the ledger Treeview: [values, sel]
    selected_items,   \* BaseGenerator.selected_items
    currency_unit,    \* currency_unit / currency_var
    api,              \* outcome of the exchange-rate lookup of the last handler
    lookups,          \* exchange-rate lookups that returned a rate, so far
    dialog,           \* the message box the last handler showed ("" when none)
    was,              \* remove_selected_item: <<rows, selected rows>> it found
    customer,         \* header entry: customer
    doc_date,         \* header entry: document date
    exported,         \* rows of the spreadsheet the last handler wrote
    edits,            \* cell edits accepted so far
    steps,            \* handlers run so far
    log,              \* ./backup/client_info_cache.json, a list of records
    delivery_no_var,  \* DeliveryNoteGenerator.delivery_no_var
    today,            \* datetime.now() as <<MM, YY>> texts
    last_call,        \* the arguments of the last update_client_info_cache
    amount,           \* CurrencyHandler: the amount handed to convert/format
    to_currency,      \* CurrencyHandler: the target currency
    live_rate,        \* CurrencyHandler: the live_rate flag
    result,           \* CurrencyHandler: what convert/format returned
    self_currency,    \* CurrencyHandler: self.currency
    lookup,           \* CurrencyHandler: how the exchange-rate lookup of a call ends
    template,         \* the Word template: [body, header, footer] paragraphs
    placeholders,     \* export_template: <<key, value>> in dict order
    doc,              \* the Document as export_template leaves it
    doc_error,        \* export_template ended in its except clause
    tables,           \* doc.tables: each table a list of rows of cell texts
    export_data,      \* the items handed to populate_item_table
    cache_file,       \* common/cache/product_cache.json
    excel_files,      \* the spreadsheets on disk, by path
    returned,         \* the last call of get_products: [file_path, raised, value]
    file,             \* the header log as two processes at once see it: chunks
    writers,          \* the two processes: [pc, data, entry, loaded_at, wrote_at]
    shown,            \* the message boxes of the last export_template, in order
    documents         \* the paths doc.save has written

vars == <<phase, docType, products, loaded, combo_display_list, combo_values,
          typed, detail_frames, item_tree, selected_items, currency_unit, api,
          lookups, dialog, was, customer, doc_date, exported, edits, steps, log,
          delivery_no_var, today,
          last_call, amount, to_currency, live_rate, result, self_currency, lookup,
          template, placeholders, doc, doc_error, tables, export_data,
          cache_file, excel_files, returned, file, writers, shown, documents>>

winVars == <<docType, products, loaded, combo_display_list, combo_values,
             typed, detail_frames, item_tree, selected_items, currency_unit,
             api, lookups, dialog, was, customer, doc_date, exported, edits,
             steps>>
logVars == <<log, delivery_no_var, today, last_call>>
curVars == <<amount, to_currency, live_rate, result, self_currency, lookup>>
docVars == <<template, placeholders, doc, doc_error, tables, export_data>>
catVars == <<cache_file, excel_files, returned>>
ioVars  == <<file, writers>>
expVars == <<shown, documents>>

None == "None"

(***************************************************************************)
(* Naturals of any size: little-endian limbs in base 2^15, no high zeros.  *)
(***************************************************************************)
Base == 2^15

RECURSIVE BNorm(_)
BNorm(a) == IF a = <<>> THEN <<>>
            ELSE IF a[Len(a)] = 0 THEN BNorm(SubSeq(a, 1, Len(a) - 1))
            ELSE a

BFromInt(n) == BNorm(<<n % Base, (n \div Base) % Base, n \div (Base * Base)>>)

RECURSIVE BToInt(_)
BToInt(a) == IF a = <<>> THEN 0 ELSE Head(a) + Base * BToInt(Tail(a))

RECURSIVE BAddC(_, _, _)
BAddC(a, b, c) ==
    IF a = <<>> /\ b = <<>> THEN (IF c = 0 THEN <<>> ELSE <<c>>)
    ELSE LET x == IF a = <<>> THEN 0 ELSE Head(a)
             y == IF b = <<>> THEN 0 ELSE Head(b)
             s == x + y + c
         IN  <<s % Base>> \o BAddC(IF a = <<>> THEN a ELSE Tail(a),
                                   IF b = <<>> THEN b ELSE Tail(b),
                                   s \div Base)

BAdd(a, b) == BNorm(BAddC(a, b, 0))

\* a - b for a >= b
RECURSIVE BSubC(_, _, _)
BSubC(a, b, c) ==
    IF a = <<>> THEN <<>>
    ELSE LET y == IF b = <<>> THEN 0 ELSE Head(b)
             d == Head(a) - y - c
         IN  <<IF d < 0 THEN d + Base ELSE d>>
             \o BSubC(Tail(a), IF b = <<>> THEN b ELSE Tail(b),
                      IF d < 0 THEN 1 ELSE 0)

BSub(a, b) == BNorm(BSubC(a, b, 0))

\* -1, 0, 1 as a < b, a = b, a > b (both normalised)
RECURSIVE BCmpFrom(_, _, _)
BCmpFrom(a, b, i) ==
    IF i = 0 THEN 0
    ELSE IF a[i] < b[i] THEN -1
    ELSE IF a[i] > b[i] THEN 1
    ELSE BCmpFrom(a, b, i - 1)

BCmp(a, b) == IF Len(a) < Len(b) THEN -1
              ELSE IF Len(a) > Len(b) THEN 1
              ELSE BCmpFrom(a, b, Len(a))

\* a * k for 0 <= k < Base
RECURSIVE BMulSmallC(_, _, _)
BMulSmallC(a, k, c) ==
    IF a = <<>> THEN (IF c = 0 THEN <<>> ELSE <<c>>)
    ELSE LET p == Head(a) * k + c
         IN  <<p % Base>> \o BMulSmallC(Tail(a), k, p \div Base)

BMulSmall(a, k) == BNorm(BMulSmallC(a, k, 0))

RECURSIVE BMul(_, _)
BMul(a, b) == IF b = <<>> \/ a = <<>> THEN <<>>
              ELSE BAdd(BMulSmall(a, Head(b)), BNorm(<<0>> \o BMul(a, Tail(b))))

\* <<quotient, remainder>> of a by d, 0 < d < Base
RECURSIVE BDivFrom(_, _, _, _)
BDivFrom(a, d, i, r) ==
    IF i = 0 THEN <<<<>>, r>>
    ELSE LET cur  == r * Base + a[i]
             rest == BDivFrom(a, d, i - 1, cur % d)
         IN  <<rest[1] \o <<cur \div d>>, rest[2]>>

BDivSmall(a, d) == LET qr == BDivFrom(a, d, Len(a), 0)
                   IN  <<BNorm(qr[1]), qr[2]>>

RECURSIVE IntBitLen(_)
IntBitLen(n) == IF n = 0 THEN 0 ELSE 1 + IntBitLen(n \div 2)

BBitLen(a) == IF a = <<>> THEN 0 ELSE 15 * (Len(a) - 1) + IntBitLen(a[Len(a)])

RECURSIVE Zeros(_)
Zeros(n) == IF n = 0 THEN <<>> ELSE <<0>> \o Zeros(n - 1)

\* a * 2^n and floor(a / 2^n)
BShl(a, n) == IF a = <<>> THEN <<>>
              ELSE Zeros(n \div 15) \o BMulSmall(a, 2^(n % 15))

BShr(a, n) == IF n \div 15 >= Len(a) THEN <<>>
              ELSE BDivSmall(SubSeq(a, (n \div 15) + 1, Len(a)), 2^(n % 15))[1]

BOdd(a) == a # <<>> /\ a[1] % 2 = 1

\* a / 2^n rounded to an integer; ties go up (HalfUp) or to the even one
RoundUp(q, half, HalfUp) ==
    IF half > 0 \/ (half = 0 /\ (HalfUp \/ BOdd(q))) THEN BAdd(q, <<1>>) ELSE q

\* q is floor(a / 2^n); twice the remainder is compared with 2^n
RoundFrom(a, n, q, HalfUp) ==
    RoundUp(q, BCmp(BShl(BSub(a, BShl(q, n)), 1), BShl(<<1>>, n)), HalfUp)

BShrRound(a, n, HalfUp) == RoundFrom(a, n, BShr(a, n), HalfUp)

(***************************************************************************)
(* IEEE-754 doubles: [neg, m, e] is (-1)^neg * m * 2^e, 2^52 <= m < 2^53,  *)
(* or m = <<>> for zero.  Results are rounded to nearest, ties to even.    *)
(***************************************************************************)
DblZero == [neg |-> FALSE, m |-> <<>>, e |-> 0]

\* m * 2^e for any natural m, rounded to 53 bits
\* r is the rounded mantissa: rounding up may have carried into bit 54
DblCarry(neg, r, e) ==
    IF BBitLen(r) = 54 THEN [neg |-> neg, m |-> BShr(r, 1), e |-> e + 1]
    ELSE [neg |-> neg, m |-> r, e |-> e]

DblPackLen(neg, m, e, len) ==
    IF len <= 53 THEN [neg |-> neg, m |-> BShl(m, 53 - len), e |-> e - (53 - len)]
    ELSE DblCarry(neg, BShrRound(m, len - 53, FALSE), e + (len - 53))

DblPack(neg, m, e) == IF m = <<>> THEN DblZero ELSE DblPackLen(neg, m, e, BBitLen(m))

\* the double nearest to p / q, for integers p and 0 < q < Base
\* the quotient with two more bits, the last one set when a remainder is left
Sticky(qr) == IF qr[2] = 0 THEN BShl(qr[1], 2) ELSE BAdd(BShl(qr[1], 2), <<1>>)

\* 70 extra bits: the quotient keeps more than 53
DblFromRatio(p, q) ==
    DblPack(p < 0,
            Sticky(BDivSmall(BShl(BFromInt(IF p < 0 THEN 0 - p ELSE p), 70), q)),
            -72)

DblFromInt(n) == DblFromRatio(n, 1)

DblMul(a, b) == DblPack(a.neg # b.neg, BMul(a.m, b.m), a.e + b.e)

\* |a| * scale rounded to an integer (scale < Base, |a| * scale < 2^31)
DblScaled(a, scale, HalfUp) ==
    IF a.m = <<>> THEN 0
    ELSE IF a.e >= 0 THEN BToInt(BShl(BMulSmall(a.m, scale), a.e))
    ELSE BToInt(BShrRound(BMulSmall(a.m, scale), 0 - a.e, HalfUp))

(***************************************************************************)
(* Text: Python str as a sequence of one-character strings.                *)
(***************************************************************************)
Digits == <<"0", "1", "2", "3", "4", "5", "6", "7", "8", "9">>

IsDigit(c) == \E i \in 1..10 : Digits[i] = c

DigitVal(c) == (CHOOSE i \in 1..10 : Digits[i] = c) - 1

IsSpace(c) == c = " "

\* str.lower() on the letters of the model's alphabet
Upper == <<"A", "B", "C", "D", "E", "F", "G", "H", "I", "J", "K", "L", "M", 
           "N", "O", "P", "Q", "R", "S", "T", "U", "V", "W", "X", "Y", "Z">>
Lower == <<"a", "b", "c", "d", "e", "f", "g", "h", "i", "j", "k", "l", "m", 
           "n", "o", "p", "q", "r", "s", "t", "u", "v", "w", "x", "y", "z">>

LowerChar(c) == IF \E i \in 1..Len(Upper) : Upper[i] = c
                THEN Lower[CHOOSE i \in 1..Len(Upper) : Upper[i] = c]
                ELSE c

StrLower(s) == [i \in 1..Len(s) |-> LowerChar(s[i])]

\* Python's  sub in s
Contains(s, sub) ==
    \E i \in 0..(Len(s) - Len(sub)) : SubSeq(s, i + 1, i + Len(sub)) = sub

\* s[a:b] with 0 <= a <= b (Python clamps the slice to the text)
Slice(s, a, b) ==
    LET hi == IF b > Len(s) THEN Len(s) ELSE b
    IN  IF a >= hi THEN <<>> ELSE SubSeq(s, a + 1, hi)

RECURSIVE LStrip(_)
LStrip(s) == IF s # <<>> /\ IsSpace(Head(s)) THEN LStrip(Tail(s)) ELSE s

RECURSIVE RStrip(_)
RStrip(s) == IF s # <<>> /\ IsSpace(s[Len(s)])
             THEN RStrip(SubSeq(s, 1, Len(s) - 1)) ELSE s

Strip(s) == RStrip(LStrip(s))

\* s.split(): the maximal runs of non-space characters
RECURSIVE SplitAcc(_, _)
SplitAcc(s, cur) ==
    IF s = <<>> THEN (IF cur = <<>> THEN <<>> ELSE <<cur>>)
    ELSE IF IsSpace(Head(s))
         THEN (IF cur = <<>> THEN <<>> ELSE <<cur>>) \o SplitAcc(Tail(s), <<>>)
         ELSE SplitAcc(Tail(s), Append(cur, Head(s)))

Split(s) == SplitAcc(s, <<>>)

\* s.replace(old, ""), old not empty: leftmost occurrences, left to right
RECURSIVE Remove(_, _)
Remove(s, old) ==
    IF Len(s) < Len(old) THEN s
    ELSE IF SubSeq(s, 1, Len(old)) = old
         THEN Remove(SubSeq(s, Len(old) + 1, Len(s)), old)
         ELSE <<Head(s)>> \o Remove(Tail(s), old)

\* ''.join(filter(str.isdigit, s))
OnlyDigits(s) == SelectSeq(s, IsDigit)

AllDigits(s) == s # <<>> /\ \A i \in 1..Len(s) : IsDigit(s[i])

RECURSIVE DigitsVal(_)
DigitsVal(s) == IF s = <<>> THEN 0
                ELSE 10 * DigitsVal(SubSeq(s, 1, Len(s) - 1)) + DigitVal(s[Len(s)])

RECURSIVE NatStr(_)
NatStr(n) == IF n < 10 THEN <<Digits[n + 1]>>
             ELSE NatStr(n \div 10) \o <<Digits[(n % 10) + 1]>>

IntStr(n) == IF n < 0 THEN <<"-">> \o NatStr(0 - n) ELSE NatStr(n)

RECURSIVE ZeroPad(_, _)
ZeroPad(s, w) == IF Len(s) >= w THEN s ELSE ZeroPad(<<"0">> \o s, w)

\* f"{n:03d}" and friends: the sign counts towards the width
FmtInt(n, w) == IF n < 0 THEN <<"-">> \o ZeroPad(NatStr(0 - n), w - 1)
                ELSE ZeroPad(NatStr(n), w)

\* digits of n with a comma before every group of three
RECURSIVE Grouped(_)
Grouped(s) == IF Len(s) <= 3 THEN s
              ELSE Grouped(SubSeq(s, 1, Len(s) - 3)) \o <<",">>
                   \o SubSeq(s, Len(s) - 2, Len(s))

\* a number of `scaled` / 10^d printed with d decimals (d > 0)
FmtFixed(neg, scaled, d, commas) ==
    LET whole == NatStr(scaled \div (10^d))
        frac  == ZeroPad(NatStr(scaled % (10^d)), d)
    IN  (IF neg THEN <<"-">> ELSE <<>>)
        \o (IF commas THEN Grouped(whole) ELSE whole) \o <<".">> \o frac

\* f"{x:.2f}", f"{x:.3f}", f"{x:,.2f}" of a double: the decimal nearest to
\* the double's exact value, ties to even
FmtDbl(x, d, commas) == FmtFixed(x.neg, DblScaled(x, 10^d, FALSE), d, commas)

(***************************************************************************)
(* int(s) and float(s) on text over the model's alphabet, as [ok, v]: ok   *)
(* is FALSE where Python raises ValueError.  Both strip the surrounding    *)
(* whitespace and take one optional sign; float takes digits with at most  *)
(* one point and at least one digit.                                       *)
(***************************************************************************)
Unsigned(s) == IF s # <<>> /\ Head(s) \in {"+", "-"} THEN Tail(s) ELSE s

PyInt(s) ==
    LET t == Strip(s)
        u == Unsigned(t)
    IN  IF ~AllDigits(u) THEN [ok |-> FALSE, v |-> 0]
        ELSE IF Head(t) = "-" THEN [ok |-> TRUE, v |-> 0 - DigitsVal(u)]
        ELSE [ok |-> TRUE, v |-> DigitsVal(u)]

PointAt(u) ==
    IF \E i \in 1..Len(u) : u[i] = "."
    THEN CHOOSE i \in 1..Len(u) : u[i] = "." /\ \A j \in 1..(i - 1) : u[j] # "."
    ELSE Len(u) + 1

\* the float d with the sign of the text (-0.0 is kept as 0.0)
Signed(neg, d) == [d EXCEPT !.neg = neg /\ d.m # <<>>]

\* the digits ds of the text, over the power of ten of its decimals
PyFloatDigits(neg, ds, scale) ==
    IF ~AllDigits(ds) THEN [ok |-> FALSE, v |-> DblZero]
    ELSE [ok |-> TRUE, v |-> Signed(neg, DblFromRatio(DigitsVal(ds), scale))]

PyFloatAt(t, u, p) ==
    PyFloatDigits(t # <<>> /\ Head(t) = "-",
                  SubSeq(u, 1, p - 1) \o SubSeq(u, p + 1, Len(u)),
                  IF p > Len(u) THEN 1 ELSE 10^(Len(u) - p))

PyFloatText(t) == PyFloatAt(t, Unsigned(t), PointAt(Unsigned(t)))

PyFloat(s) == PyFloatText(Strip(s))

(***************************************************************************)
(* Python values as the handlers see them: str, int, float and pandas' NaN *)
(* (a column the data does not have).                                      *)
(***************************************************************************)
PyStr(s)     == [t |-> "str", v |-> s]
PyIntV(n)    == [t |-> "int", v |-> n]
PyFloatV(d)  == [t |-> "float", v |-> d]
NaN          == [t |-> "nan", v |-> 0]

\* str(x) for a str or an int
StrOf(x) == IF x.t = "int" THEN IntStr(x.v) ELSE x.v

\* bool(x) for a str or an int
Truthy(x) == IF x.t = "int" THEN x.v # 0 ELSE x.v # <<>>

\* tkinter.ttk._convert_stringval, applied to every value that
\* item(...)['values'] returns: text that int() accepts comes back as an int
TkConverted(s, n) == IF n.ok THEN PyIntV(n.v) ELSE PyStr(s)

TkRead(s) == TkConverted(s, PyInt(s))

TkValues(values) == [i \in 1..Len(values) |-> TkRead(values[i])]

\* values handed to item(..., values=...) are stored as their text
TkStore(vals) == [i \in 1..Len(vals) |-> StrOf(vals[i])]

(***************************************************************************)
(* The catalog.  A product is a dict with Part Number, Description,        *)
(* Supplier, Unit Price, Weight and Qty; Unit Price and Weight are floats, *)
(* held here as the decimal they were read from (hundredths, thousandths). *)
(***************************************************************************)
SAR == <<"S", "A", "R">>
USD == <<"U", "S", "D">>
Pcs == <<"p", "c", "s">>
Kg  == <<"k", "g">>
Sep == <<" ", "-", " ">>

P001 == [PartNumber |-> <<"P", "0", "0", "1">>, Description |-> <<"S", "t", "e", "e", "l", " ", "P", "i", "p", "e">>,
         Supplier |-> <<"A", "B", "C">>, UnitPrice |-> 2550, Weight |-> 2500, Qty |-> 1]
P002 == [PartNumber |-> <<"p", "0", "0", "2">>, Description |-> <<"C", "o", "p", "p", "e", "r", " ", "W", "i", "r", "e">>,
         Supplier |-> <<"E", "T">>, UnitPrice |-> 1575, Weight |-> 800, Qty |-> 1]

\* what get_products() can return when a window opens
Catalogs == {<<P001>>}

\* what an uploaded spreadsheet can hold
Uploads == {<<P002, P001>>}

\* a product whose Qty cell in the spreadsheet is negative
P006 == [PartNumber |-> <<"P", "0", "0", "6">>, Description |-> <<"V", "a", "l", "v", "e">>,
         Supplier |-> <<"E", "T">>, UnitPrice |-> 900, Weight |-> 300, Qty |-> 0 - 3]

\* uploads of any spreadsheet
AnyUploads == Uploads \cup {<<P006>>}

\* get_sample_products, cut to its first product
get_sample_products == <<P001>>

\* a file on disk: absent, unreadable, or holding a list of rows
NoFile        == [t |-> "missing", v |-> <<>>]
Unreadable    == [t |-> "malformed", v |-> <<>>]
Holding(rows) == [t |-> "rows", v |-> rows]

PyNone       == [t |-> "None", v |-> <<>>]
PyList(rows) == [t |-> "list", v |-> rows]

DEFAULT_FILE_NAME == "Price_List.xlsx"
Paths == {DEFAULT_FILE_NAME, "new.xlsx"}

\* how a write of the cache file ends: json.dump completes, open() fails and
\* the file is left as it was, or json.dump fails after open() truncated it
WriteOutcomes == {"written", "refused", "torn"}

\* save_products_cache: the content of the cache file afterwards (every
\* exception is caught)
save_products_cache(cache, rows, outcome) ==
    CASE outcome = "written" -> Holding(rows)
      [] outcome = "refused" -> cache
      [] OTHER               -> Unreadable

\* load_products_cache: None when there is no file or json.load raises
load_products_cache(cache) ==
    IF cache.t = "rows" THEN PyList(cache.v) ELSE PyNone

PriceOf(p)  == DblFromRatio(p.UnitPrice, 100)
WeightOf(p) == DblFromRatio(p.Weight, 1000)

(***************************************************************************)
(* common/utils.py                                                         *)
(***************************************************************************)
\* format_qty for an int
format_qty(qty) == IntStr(IF qty # 0 THEN qty ELSE 1) \o <<" ">> \o Pcs

\* format_price for a float
format_price(price, currency) == FmtDbl(price, 2, FALSE) \o <<" ">> \o currency

\* format_weight for a float
format_weight(weight) == FmtDbl(weight, 3, FALSE) \o <<" ">> \o Kg

\* format_currency for a float
format_currency(value, currency) == currency \o <<" ">> \o FmtDbl(value, 2, TRUE)

\* x.split()[0] then int/float; IndexError and ValueError give the default,
\* anything else (an int has no split) escapes as an exception
FirstWord(s) == IF Split(s) = <<>> THEN <<>> ELSE Split(s)[1]

OrDefault(r, default) == [raised |-> FALSE, v |-> IF r.ok THEN r.v ELSE default]

parse_qty_from_display(x) ==
    IF x.t # "str" THEN [raised |-> TRUE, v |-> 0]
    ELSE OrDefault(PyInt(FirstWord(x.v)), 1)

parse_price_from_display(x) ==
    IF x.t # "str" THEN [raised |-> TRUE, v |-> DblZero]
    ELSE OrDefault(PyFloat(FirstWord(x.v)), DblZero)

parse_weight_from_display(x) == parse_price_from_display(x)

\* re.search(r"[-+]?\d*\.\d+|\d+", s): the match that starts at position i
RECURSIVE DigitRun(_, _)
DigitRun(s, i) == IF i <= Len(s) /\ IsDigit(s[i]) THEN 1 + DigitRun(s, i + 1) ELSE 0

FloatMatchAt(s, i) ==
    LET j  == IF s[i] \in {"-", "+"} THEN i + 1 ELSE i
        n1 == DigitRun(s, j)
        \* \d* takes the whole digit run; the first alternative matches
        \* when a point and at least one digit follow it
        n2 == IF j + n1 <= Len(s) /\ s[j + n1] = "." THEN DigitRun(s, j + n1 + 1) ELSE 0
    IN  IF n2 > 0 THEN SubSeq(s, i, j + n1 + n2)
        ELSE IF DigitRun(s, i) > 0 THEN SubSeq(s, i, i + DigitRun(s, i) - 1)
        ELSE <<>>

RECURSIVE FloatSearch(_, _)
FloatSearch(s, i) ==
    IF i > Len(s) THEN <<>>
    ELSE IF FloatMatchAt(s, i) # <<>> THEN FloatMatchAt(s, i)
    ELSE FloatSearch(s, i + 1)

parse_float_from_string(x) ==
    LET m == FloatSearch(StrOf(x), 1)
    IN  IF m = <<>> THEN DblZero ELSE PyFloat(m).v

(***************************************************************************)
(* BaseGenerator: the search box                                           *)
(***************************************************************************)
Display(p) == p.PartNumber \o Sep \o p.Description

\* build_combo_display_list
build_combo_display_list(ps) == [i \in 1..Len(ps) |-> Display(ps[i])]

\* a variant of the filter that looks at the Part Number only
FilteredByPartNumber(ps, text) ==
    LET Match(p) == Contains(StrLower(p.PartNumber), text)
    IN  SelectSeq(ps, Match)

\* the filter of on_keyrelease
Filtered(ps, text) ==
    LET Match(p) == \/ Contains(StrLower(p.PartNumber), text)
                    \/ Contains(StrLower(p.Description), text)
    IN  SelectSeq(ps, Match)

\* show_details: one frame per product, its checkbox clear
Frames(ps) == [i \in 1..Len(ps) |-> [product |-> ps[i], checked |-> FALSE]]

(***************************************************************************)
(* The three window classes: columns and row format                        *)
(***************************************************************************)
DocTypes == {"delivery", "dispatch", "material"}

\* get_treeview_columns
get_treeview_columns(dt) ==
    CASE dt = "delivery" ->
           <<"Part Number", "Description", "Qty", "Supplier", "Unit Price", "Weight">>
      [] dt = "dispatch" ->
           <<"Part Number", "Description", "Qty", "Unit Price", "Weight">>
      [] dt = "material" ->
           <<"Part Number", "Description", "Supplier", "Qty", "Unit Price",
             "Total Price", "Weight">>

\* the Status of a new row of the dispatch window
Ready == <<"R", "e", "a", "d", "y">>

\* format_item_for_tree: the texts of a new ledger row
format_item_for_tree(dt, p, currency) ==
    CASE dt = "delivery" ->
           <<p.PartNumber, p.Description, format_qty(p.Qty), p.Supplier,
             format_price(PriceOf(p), currency), format_weight(WeightOf(p))>>
      [] dt = "dispatch" ->
           <<p.PartNumber, p.Description, format_qty(p.Qty),
             format_price(PriceOf(p), currency), format_weight(WeightOf(p)),
             Ready, <<>> >>
      [] dt = "material" ->
           <<p.PartNumber, p.Description, p.Supplier, format_qty(p.Qty),
             format_currency(PriceOf(p), currency),
             format_currency(DblMul(DblFromInt(p.Qty), PriceOf(p)), currency),
             format_weight(WeightOf(p))>>

\* Treeview.insert("", "end", values=...): a new row, not selected
Row(values) == [values |-> values, sel |-> FALSE]

(***************************************************************************)
(* Bounds of the model                                                     *)
(***************************************************************************)
MaxRows    == 2      \* ledger rows
MaxFrames  == 2      \* product frames the clerk can tick
MaxLookups == 1      \* exchange-rate lookups that return a rate
MaxEdits   == 1      \* cell edits that are accepted
MaxSteps   == 5      \* handlers run in one session of a window
MaxRecords == 3      \* records in the header log

\* what the clerk can type in the search box
Queries == {<<>>, <<"p", "0">>, <<"P", "I", "P", "E">>, <<"x">>}

\* what the clerk can type in a cell editor
EditTexts == {<<"3">>, <<"-", "2">>, <<"x">>}

\* what the clerk can type in the customer entry
Customers == {<<>>, <<"A", "c", "m", "e">>}

\* today's date, "%d-%m-%y", and its "%m-%y"
TodayDate == <<"0", "2", "-", "1", "1", "-", "2", "6">>
TodayMY   == <<"1", "1", "-", "2", "6">>

(***************************************************************************)
(* BaseGenerator.__init__ and the search handlers                          *)
(***************************************************************************)
\* no second process is at the header log
InitAlone == file = <<>> /\ writers = <<>>

InitLogFile ==
    /\ log = <<>> /\ delivery_no_var = <<>> /\ today = TodayMY /\ last_call = None
    /\ InitAlone

InitHandler ==
    /\ amount = 0 /\ to_currency = <<>> /\ live_rate = FALSE /\ lookup = None
    /\ result = [raised |-> FALSE, value |-> <<>>] /\ self_currency = SAR

InitWidgets ==
    /\ phase = "init"
    /\ docType \in DocTypes
    /\ products \in Catalogs
    /\ loaded = products
    /\ combo_display_list = build_combo_display_list(products)
    /\ combo_values = combo_display_list
    /\ typed = <<>>
    /\ detail_frames = <<>>
    /\ currency_unit = SAR
    /\ api = None
    /\ lookups = 0
    /\ dialog = ""
    /\ shown = <<>>
    /\ documents = <<>>
    /\ was = <<0, {}>>
    /\ customer = <<>>
    /\ doc_date = TodayDate
    /\ exported = <<>>
    /\ edits = 0
    /\ steps = 0

\* a window as it opens: the ledger is empty
InitWindow ==
    /\ InitWidgets
    /\ item_tree = <<>>
    /\ selected_items = <<>>

\* no template is open
InitDocument ==
    /\ template = [body |-> <<>>, header |-> <<>>, footer |-> <<>>]
    /\ placeholders = <<>>
    /\ doc = template
    /\ doc_error = FALSE
    /\ tables = <<>>
    /\ export_data = <<>>

\* a fresh installation: no cache and no spreadsheet, so that get_products()
\* gave the window the sample set
InitFiles ==
    /\ cache_file = NoFile
    /\ excel_files = [f \in Paths |-> NoFile]
    /\ returned = [file_path |-> None, raised |-> FALSE,
                   value |-> PyList(get_sample_products)]

Init == InitWindow /\ InitLogFile /\ InitHandler /\ InitDocument /\ InitFiles

\* one more handler of the session
Step == steps < MaxSteps /\ steps' = steps + 1

NotWindow == UNCHANGED <<logVars, curVars, docVars, catVars, ioVars, expVars>>

\* a handler that is not remove_selected_item
NotRemove == was' = <<0, {}>> /\ api' = None /\ exported' = <<>> /\ NotWindow

\* a handler that shows no message box
Quiet == dialog' = "" /\ NotRemove

\* on_keyrelease: filter the catalog by the typed text
on_keyrelease(q) ==
    /\ Step
    /\ phase' = "keyrelease"
    /\ typed' = q
    /\ IF StrLower(q) = <<>>
       THEN /\ combo_values' = combo_display_list
            /\ detail_frames' = <<>>
       ELSE /\ combo_values' = build_combo_display_list(Filtered(products, StrLower(q)))
            /\ detail_frames' = Frames(Filtered(products, StrLower(q)))
    /\ UNCHANGED <<docType, products, loaded, combo_display_list, item_tree,
                   selected_items, currency_unit, lookups, edits, customer,
                   doc_date>>
    /\ Quiet

\* the clerk ticks or clears the checkbox of a product frame
toggle_checkbox(i) ==
    /\ Step
    /\ i \in 1..Len(detail_frames)
    /\ phase' = "checkbox"
    /\ detail_frames' = [detail_frames EXCEPT ![i].checked = ~@]
    /\ UNCHANGED <<docType, products, loaded, combo_display_list, combo_values,
                   typed, item_tree, selected_items, currency_unit, lookups, edits,
                   customer, doc_date>>
    /\ Quiet

(***************************************************************************)
(* BaseGenerator: the ledger                                               *)
(***************************************************************************)
Checked(frames) == SelectSeq(frames, LAMBDA f : f.checked)
Unchecked(frames) == SelectSeq(frames, LAMBDA f : ~f.checked)

\* the loop of add_selected_items over the checked frames
AddedRows(dt, frames, currency) ==
    [i \in 1..Len(Checked(frames)) |->
        Row(format_item_for_tree(dt, Checked(frames)[i].product, currency))]

AddedProducts(frames) ==
    [i \in 1..Len(Checked(frames)) |-> Checked(frames)[i].product]

\* a variant of add_selected_items that moves the added products out of the
\* catalog instead of copying them
AddFromMoving(frames) ==
    /\ Len(item_tree) + Len(Checked(frames)) <= MaxRows
    /\ item_tree' = item_tree \o AddedRows(docType, frames, currency_unit)
    /\ selected_items' = selected_items \o AddedProducts(frames)
    /\ detail_frames' = Unchecked(frames)
    /\ IF Len(Checked(frames)) > 0
       THEN typed' = <<>> /\ dialog' = "Items Added"
       ELSE typed' = typed /\ dialog' = "No Selection"
    /\ products' = SelectSeq(products,
                             LAMBDA p : \A i \in 1..Len(AddedProducts(frames)) :
                                           AddedProducts(frames)[i] # p)
    /\ UNCHANGED <<docType, loaded, combo_display_list, combo_values,
                   currency_unit, lookups, edits, customer, doc_date>>
    /\ NotRemove

\* add_selected_items with the frames as given
AddFrom(frames) ==
    /\ Len(item_tree) + Len(Checked(frames)) <= MaxRows
    /\ item_tree' = item_tree \o AddedRows(docType, frames, currency_unit)
    /\ selected_items' = selected_items \o AddedProducts(frames)
    /\ detail_frames' = Unchecked(frames)
    /\ IF Len(Checked(frames)) > 0
       THEN typed' = <<>> /\ dialog' = "Items Added"
       ELSE typed' = typed /\ dialog' = "No Selection"
    /\ UNCHANGED <<docType, products, loaded, combo_display_list, combo_values,
                   currency_unit, lookups, edits, customer, doc_date>>
    /\ NotRemove

\* add_selected_items: the "+" button
add_selected_items ==
    /\ Step
    /\ phase' = "add"
    /\ AddFrom(detail_frames)

\* select_all_items: the "All" button ticks every frame and adds them
select_all_items ==
    /\ Step
    /\ phase' = "select_all"
    /\ IF detail_frames # <<>>
       THEN AddFrom([i \in 1..Len(detail_frames) |->
                        [detail_frames[i] EXCEPT !.checked = TRUE]])
       ELSE /\ dialog' = "No Items"
            /\ UNCHANGED <<docType, products, loaded, combo_display_list,
                           combo_values, typed, detail_frames, item_tree,
                           selected_items, currency_unit, lookups, edits, customer,
                           doc_date>>
            /\ NotRemove

\* the clerk clicks in the ledger: any set of rows becomes the selection
select_rows(S) ==
    /\ Step
    /\ S \subseteq 1..Len(item_tree)
    /\ item_tree # <<>>
    /\ phase' = "select_rows"
    /\ item_tree' = [i \in 1..Len(item_tree) |-> [item_tree[i] EXCEPT !.sel = (i \in S)]]
    /\ UNCHANGED <<docType, products, loaded, combo_display_list, combo_values,
                   typed, detail_frames, selected_items, currency_unit, lookups, edits, customer, doc_date>>
    /\ Quiet

\* item_tree.selection() as row positions
Selection(tree) == {i \in 1..Len(tree) : tree[i].sel}

\* a sequence without the positions in S
RECURSIVE Without(_, _, _)
Without(s, S, i) ==
    IF i > Len(s) THEN <<>>
    ELSE (IF i \in S THEN <<>> ELSE <<s[i]>>) \o Without(s, S, i + 1)

\* a variant of remove_selected_item without the branch for a single row
RemoveResultNeedsSelection(tree, items) ==
    IF Len(tree) = 0 THEN <<tree, items, "No Items">>
    ELSE IF Selection(tree) = {} THEN <<tree, items, "No Selection">>
    ELSE <<Without(tree, Selection(tree), 1),
           Without(items, Selection(tree), 1), "">>

\* a variant of remove_selected_item that warns about a missing selection
\* and removes the last row all the same
RemoveResultDropsLast(tree, items) ==
    IF Len(tree) = 0 THEN <<tree, items, "No Items">>
    ELSE IF Len(tree) = 1
         THEN <<<<>>, IF items # <<>> THEN Tail(items) ELSE items, "">>
    ELSE IF Selection(tree) = {}
         THEN <<Without(tree, {Len(tree)}, 1), Without(items, {Len(tree)}, 1),
                "No Selection">>
    ELSE <<Without(tree, Selection(tree), 1),
           Without(items, Selection(tree), 1), "">>

\* the ledger part of remove_selected_item: <<rows, products, dialog>>
RemoveResult(tree, items) ==
    IF Len(tree) = 0 THEN <<tree, items, "No Items">>
    ELSE IF Len(tree) = 1
         THEN <<<<>>, IF items # <<>> THEN Tail(items) ELSE items, "">>
    ELSE IF Selection(tree) = {} THEN <<tree, items, "No Selection">>
    ELSE <<Without(tree, Selection(tree), 1),
           Without(items, Selection(tree), 1), "">>

\* remove_selected_item: the "-" button
remove_selected_item ==
    /\ Step
    /\ phase' = "remove"
    /\ item_tree' = RemoveResult(item_tree, selected_items)[1]
    /\ selected_items' = RemoveResult(item_tree, selected_items)[2]
    /\ dialog' = RemoveResult(item_tree, selected_items)[3]
    /\ was' = <<Len(item_tree), Selection(item_tree)>>
    /\ UNCHANGED <<docType, products, loaded, combo_display_list, combo_values,
                   typed, detail_frames, currency_unit, lookups, edits, customer,
                   doc_date>>
    /\ api' = None /\ exported' = <<>>
    /\ NotWindow

\* reset_items
reset_items ==
    /\ Step
    /\ phase' = "reset"
    /\ selected_items' = <<>>
    /\ item_tree' = <<>>
    /\ UNCHANGED <<docType, products, loaded, combo_display_list, combo_values,
                   typed, detail_frames, currency_unit, lookups, edits,
                   customer, doc_date>>
    /\ Quiet

\* a variant of Treeview.move that puts the row first whatever the index
MoveToTop(tree, from, to) == <<tree[from]>> \o Without(tree, {from}, 1)

\* Treeview.move(item, parent, index): the row at `from` goes to position `to`
Move(tree, from, to) ==
    LET rest == Without(tree, {from}, 1)
    IN  SubSeq(rest, 1, to - 1) \o <<tree[from]>> \o SubSeq(rest, to, Len(rest))

\* the loop of move_item_up over the selected rows, first to last
RECURSIVE MoveUpFrom(_, _)
MoveUpFrom(tree, i) ==
    IF i > Len(tree) THEN tree
    ELSE IF tree[i].sel /\ i > 1 THEN MoveUpFrom(Move(tree, i, i - 1), i + 1)
    ELSE MoveUpFrom(tree, i + 1)

\* the loop of move_item_down over the selected rows, last to first
RECURSIVE MoveDownFrom(_, _)
MoveDownFrom(tree, i) ==
    IF i < 1 THEN tree
    ELSE IF tree[i].sel /\ i < Len(tree) THEN MoveDownFrom(Move(tree, i, i + 1), i - 1)
    ELSE MoveDownFrom(tree, i - 1)

LedgerOnly ==
    /\ UNCHANGED <<docType, products, loaded, combo_display_list, combo_values,
                   typed, detail_frames, selected_items, currency_unit, lookups, edits, customer, doc_date>>
    /\ Quiet

\* move_item_up
move_item_up ==
    /\ Step
    /\ phase' = "move_up"
    /\ item_tree' = MoveUpFrom(item_tree, 1)
    /\ LedgerOnly

\* move_item_down
move_item_down ==
    /\ Step
    /\ phase' = "move_down"
    /\ item_tree' = MoveDownFrom(item_tree, Len(item_tree))
    /\ LedgerOnly

\* the columns a double click opens an editor on
Editable(dt) == IF dt = "dispatch" THEN {"Qty", "Status", "Notes"}
                ELSE {"Qty", "Unit Price", "Weight"}

\* on_enter of the cell editor: <<ok, values, dialog>> for the entered text
EditResult(values, column_id, column_name, text) ==
    LET new_value == Strip(text)
        qty_str   == OnlyDigits(new_value)
        vals      == TkValues(values)
    IN  IF column_name = "Qty" /\ qty_str = <<>>
        THEN <<FALSE, values, "Invalid Input">>
        ELSE IF column_name = "Qty" /\ DigitsVal(qty_str) <= 0
        THEN <<FALSE, values, "Invalid Input">>
        ELSE <<TRUE,
               TkStore([vals EXCEPT ![column_id] =
                  PyStr(IF column_name = "Qty" THEN format_qty(DigitsVal(qty_str))
                        ELSE new_value)]),
               "">>

\* on_double_click on row i, column c, then Return in the editor it opens
on_double_click(i, c, text) ==
    /\ Step
    /\ i \in 1..Len(item_tree)
    /\ c \in 1..Len(get_treeview_columns(docType))
    /\ get_treeview_columns(docType)[c] \in Editable(docType)
    /\ c <= Len(item_tree[i].values)
    /\ edits < MaxEdits
    /\ phase' = "edit"
    /\ LET r == EditResult(item_tree[i].values, c, get_treeview_columns(docType)[c], text)
       IN  /\ item_tree' = [item_tree EXCEPT ![i].values = r[2]]
           /\ dialog' = r[3]
           /\ edits' = IF r[1] THEN edits + 1 ELSE edits
    /\ UNCHANGED <<docType, products, loaded, combo_display_list, combo_values,
                   typed, detail_frames, selected_items, currency_unit, lookups,
                   customer, doc_date>>
    /\ NotRemove

(***************************************************************************)
(* Exchange rates                                                          *)
(***************************************************************************)
\* CurrencyHandler.static_rates, as hundredths
StaticRates == [c \in {SAR, USD} |-> IF c = SAR THEN 100 ELSE 27]

StaticRate(c) == DblFromRatio(StaticRates[c], 100)

\* what a lookup at exchangerate-api.com can end in: no API key, an
\* exception (network, JSON), a result other than "success", a response
\* without the currency, or a rate
ApiOutcomes == {"no_key", "exception", "unsuccessful", "missing", "rate"}

\* the rate a successful lookup returns, in ten-thousandths
LiveRates == {2667}

\* BaseGenerator.get_live_rate / CurrencyHandler.get_live_rate: the rate (as
\* ten-thousandths) or 0 for None
get_live_rate(outcome, r) == IF outcome = "rate" THEN r ELSE 0

(***************************************************************************)
(* BaseGenerator.on_currency_changed                                       *)
(***************************************************************************)
\* the rate the ledger is repriced with
LedgerRate(target, outcome, r) ==
    IF target # SAR /\ get_live_rate(outcome, r) # 0
    THEN DblFromRatio(get_live_rate(outcome, r), 10000)
    ELSE DblFromInt(1)

\* one row of the loop: values[4] without "SAR", "USD" and ",", as a float
\* times the rate; a row whose values[4] is no number is left as it is
RepricedAs(values, vals, sar_price, rate, target) ==
    IF ~sar_price.ok THEN values
    ELSE TkStore([vals EXCEPT ![5] =
                    PyStr(format_price(DblMul(sar_price.v, rate), target))])

RepricedVals(values, vals, rate, target) ==
    RepricedAs(values, vals,
               PyFloat(Strip(Remove(Remove(Remove(StrOf(vals[5]), SAR), USD), <<",">>))),
               rate, target)

Repriced(values, rate, target) == RepricedVals(values, TkValues(values), rate, target)

\* the loop over the rows; a row with fewer than five values raises
\* IndexError, which ends the handler with the rows before it repriced
RECURSIVE RepriceFrom(_, _, _, _)
RepriceFrom(tree, i, rate, target) ==
    IF i > Len(tree) \/ Len(tree[i].values) < 5 THEN tree
    ELSE RepriceFrom([tree EXCEPT ![i].values = Repriced(tree[i].values, rate, target)],
                     i + 1, rate, target)

on_currency_changed(target, outcome, r) ==
    /\ Step
    /\ target \in {SAR, USD}
    /\ IF target = SAR THEN outcome = None /\ r = 0
       ELSE outcome \in ApiOutcomes /\ r \in LiveRates
    /\ outcome = "rate" => lookups < MaxLookups
    /\ phase' = "currency"
    /\ currency_unit' = target
    /\ api' = outcome
    /\ lookups' = IF outcome = "rate" THEN lookups + 1 ELSE lookups
    /\ item_tree' = RepriceFrom(item_tree, 1, LedgerRate(target, outcome, r), target)
    /\ UNCHANGED <<docType, products, loaded, combo_display_list, combo_values,
                   typed, detail_frames, selected_items, edits, customer,
                   doc_date>>
    /\ dialog' = "" /\ was' = <<0, {}>> /\ exported' = <<>>
    /\ NotWindow

(***************************************************************************)
(* Spreadsheet export                                                      *)
(***************************************************************************)
\* round(x, 2) and round(x, 3) of a float: the float nearest to the decimal
\* nearest to x
PyRound(x, d) == Signed(x.neg, DblFromRatio(DblScaled(x, 10^d, FALSE), 10^d))

\* int(str(x).split()[0]) of DispatchNoteGenerator.get_export_data
DispatchQty(x) == PyInt(FirstWord(StrOf(x)))

Kept(row) == [skip |-> FALSE, row |-> row]
Skipped == [skip |-> TRUE, row |-> <<>>]

\* row_data of DeliveryNoteGenerator.get_export_data
DeliveryRowData(vals, qty, price, weight) ==
    "Delivery Note Date" :> PyStr(Strip(doc_date))
    @@ "Customer" :> PyStr(Strip(customer))
    @@ "Part Number" :> vals[1]
    @@ "Description" :> vals[2]
    @@ "Supplier" :> vals[4]
    @@ "Qty" :> PyIntV(qty)
    @@ "Unit Price" :> PyFloatV(PyRound(price, 2))
    @@ "Unit Weight (kg)" :> PyFloatV(PyRound(weight, 3))
    @@ "Total Price" :> PyFloatV(PyRound(DblMul(DblFromInt(qty), price), 2))
    @@ "Total Weight (kg)" :> PyFloatV(PyRound(DblMul(DblFromInt(qty), weight), 3))

\* the parse step of the delivery loop: an exception skips the row
DeliveryParsed(vals, qty, price, weight) ==
    IF qty.raised \/ price.raised \/ weight.raised THEN Skipped
    ELSE Kept(DeliveryRowData(vals, qty.v, price.v, weight.v))

DeliveryRow(vals) ==
    IF ~Truthy(vals[1]) \/ ~Truthy(vals[2]) \/ Len(vals) < 6 THEN Skipped
    ELSE DeliveryParsed(vals, parse_qty_from_display(vals[3]),
                        parse_price_from_display(vals[5]),
                        parse_weight_from_display(vals[6]))

\* the dict DispatchNoteGenerator.get_export_data appends
DispatchRowData(vals, qty, price, weight) ==
    "Part Number" :> vals[1]
    @@ "Description" :> vals[2]
    @@ "Qty" :> PyIntV(qty)
    @@ "Unit Price (SAR)" :> PyFloatV(price)
    @@ "Unit Weight (kg)" :> PyFloatV(PyRound(weight, 3))
    @@ "Total Weight (kg)" :> PyFloatV(PyRound(DblMul(DblFromInt(qty), weight), 3))
    @@ "Item Status" :> (IF Len(vals) > 6 THEN vals[7] ELSE PyStr(Ready))

DispatchParsed(vals, qty) ==
    IF ~qty.ok THEN Skipped
    ELSE Kept(DispatchRowData(vals, qty.v, parse_float_from_string(vals[5]),
                              parse_float_from_string(vals[6])))

DispatchRow(vals) ==
    IF ~Truthy(vals[1]) \/ ~Truthy(vals[2]) \/ Len(vals) < 6 THEN Skipped
    ELSE DispatchParsed(vals, DispatchQty(vals[3]))

\* dict(zip(columns, values)) of MaterialListGenerator.get_export_data
MaterialRow(values, cols) ==
    Kept([c \in {cols[k] : k \in 1..Len(cols)} |->
            LET k == CHOOSE k \in 1..Len(cols) : cols[k] = c
            IN  IF k <= Len(values) THEN PyStr(values[k]) ELSE PyStr(<<>>)])

\* one ledger row as get_export_data maps it: [skip, row]
ExportRow(dt, values) ==
    CASE dt = "delivery" -> DeliveryRow(TkValues(values))
      [] dt = "dispatch" -> DispatchRow(TkValues(values))
      [] dt = "material" -> MaterialRow(values, get_treeview_columns(dt))

Keep(r) == IF r.skip THEN <<>> ELSE <<r.row>>

\* the rows get_export_data keeps, in ledger order
RECURSIVE ExportRows(_, _, _)
ExportRows(dt, tree, i) ==
    IF i > Len(tree) THEN <<>>
    ELSE Keep(ExportRow(dt, tree[i].values)) \o ExportRows(dt, tree, i + 1)

\* get_export_data: [raised, data]; the delivery and dispatch windows
\* require the customer and the document date
get_export_data(dt, tree) ==
    IF dt # "material" /\ (Strip(customer) = <<>> \/ Strip(doc_date) = <<>>)
    THEN [raised |-> TRUE, data |-> <<>>]
    ELSE [raised |-> FALSE, data |-> ExportRows(dt, tree, 1)]

\* DataFrame(data).reindex(columns=tree_columns): the ledger's columns, in
\* that order; a column the data has no key for is NaN
Reindex(data, cols) ==
    [i \in 1..Len(data) |->
        [k \in 1..Len(cols) |->
            IF cols[k] \in DOMAIN data[i] THEN data[i][cols[k]] ELSE NaN]]

\* export_to_excel once get_export_data has returned or raised
Exported(d, save) ==
    IF d.raised THEN dialog' = "Export Failed" /\ exported' = <<>>
    ELSE IF d.data = <<>> THEN dialog' = "No Valid Data" /\ exported' = <<>>
    ELSE IF ~save THEN dialog' = "" /\ exported' = <<>>
    ELSE /\ dialog' = "Export Successful"
         /\ exported' = Reindex(d.data, get_treeview_columns(docType))

\* export_to_excel; `save` is whether the clerk confirms the file dialog
export_to_excel(save) ==
    /\ Step
    /\ phase' = "export"
    /\ IF item_tree = <<>>
       THEN dialog' = "No Data" /\ exported' = <<>>
       ELSE Exported(get_export_data(docType, item_tree), save)
    /\ UNCHANGED <<docType, products, loaded, combo_display_list, combo_values,
                   typed, detail_frames, item_tree, selected_items,
                   currency_unit, lookups, edits, customer, doc_date>>
    /\ was' = <<0, {}>> /\ api' = None
    /\ NotWindow

(***************************************************************************)
(* The header log of the delivery window                                   *)
(***************************************************************************)
\* load_all_delivery_notes: the stored list; load_from_json gives [] for a
\* missing or unreadable file
load_all_delivery_notes(records) == records

\* d.get(k) == v
GetEq(d, k, v) == k \in DOMAIN d /\ d[k] = v

\* d.get(k, "")
GetOr(d, k) == IF k \in DOMAIN d THEN d[k] ELSE <<>>

\* the sequence number of generate_delivery_note_number
NextSeq(all_notes) ==
    IF all_notes = <<>> THEN 1
    ELSE LET last_dn == GetOr(all_notes[Len(all_notes)], "Delivery Note No.")
         IN  IF PyInt(Slice(last_dn, 2, 5)).ok
             THEN PyInt(Slice(last_dn, 2, 5)).v + 1
             ELSE Len(all_notes) + 1

\* generate_delivery_note_number: f"DN{seq:03d}-{now.strftime('%m-%y')}"
DeliveryNoteNumber(all_notes, month_year) ==
    <<"D", "N">> \o FmtInt(NextSeq(all_notes), 3) \o <<"-">> \o month_year

\* the entry save_delivery_note appends (the keys the model follows)
DeliveryEntry(number, c, p) ==
    "Delivery Note No." :> Strip(number) @@ "Customer" :> Strip(c)
    @@ "Project" :> Strip(p)

\* the entry save_dispatch_note appends
DispatchEntry(c, p, date) ==
    "Customer" :> Strip(c) @@ "Project" :> Strip(p)
    @@ "Dispatch Note Date" :> Strip(date)

\* the entry save_material_list appends
MaterialEntry(p, date) ==
    "Project" :> Strip(p) @@ "Delivery Note Date" :> Strip(date)

\* the record update_client_info_cache appends
CacheRecord(delivery_no, c, p) ==
    "Customer" :> c @@ "Project_Name" :> p @@ "Delivery_No" :> delivery_no

\* a variant of the duplicate test that looks the project up under the key
\* the header log uses
CacheHasByProject(data, delivery_no, c, p) ==
    \E i \in 1..Len(data) :
        /\ GetEq(data[i], "Customer", c)
        /\ GetEq(data[i], "Project", p)
        /\ GetEq(data[i], "Delivery_No", delivery_no)

\* the duplicate test of update_client_info_cache
CacheHas(data, delivery_no, c, p) ==
    \E i \in 1..Len(data) :
        /\ GetEq(data[i], "Customer", c)
        /\ GetEq(data[i], "Project_Name", p)
        /\ GetEq(data[i], "Delivery_No", delivery_no)

\* what the clerk can type in the delivery note number entry
NumberTexts == {<<"D", "N", "9", "9", "9", "-", "1", "1", "-", "2", "6">>, <<"D", "N", "1", "0", "0", "0", "-", "1", "1", "-", "2", "6">>, <<"D", "N", "1", "2", "-", "1", "1", "-", "2", "6">>}

\* what the clerk can type in the project entry
Projects == {<<"V", "i", "l", "l", "a">>}

\* the customers the log specification saves documents for
Clients == {<<"A", "c", "m", "e">>}

NotLog == UNCHANGED <<winVars, curVars, docVars, catVars, ioVars, expVars>>

\* generate_delivery_note_number
generate_delivery_note_number ==
    /\ phase' = "generate"
    /\ delivery_no_var' = DeliveryNoteNumber(load_all_delivery_notes(log), today)
    /\ UNCHANGED <<log, today, last_call>>
    /\ NotLog

\* the clerk types in the delivery note number entry
type_delivery_no(text) ==
    /\ phase' = "type_delivery_no"
    /\ delivery_no_var' = text
    /\ UNCHANGED <<log, today, last_call>>
    /\ NotLog

\* save_delivery_note: the entry is appended and written; the call of
\* update_client_info_cache then raises KeyError on "Delivery_Note_No"
save_delivery_note(c, p) ==
    /\ Len(log) < MaxRecords
    /\ phase' = "save_delivery_note"
    /\ log' = Append(log, DeliveryEntry(delivery_no_var, c, p))
    /\ UNCHANGED <<delivery_no_var, today, last_call>>
    /\ NotLog

\* save_dispatch_note
save_dispatch_note(c, p) ==
    /\ Len(log) < MaxRecords
    /\ phase' = "save_dispatch_note"
    /\ log' = Append(log, DispatchEntry(c, p, TodayDate))
    /\ UNCHANGED <<delivery_no_var, today, last_call>>
    /\ NotLog

\* a variant of save_material_list that takes the stored list for unreadable
\* and writes the new entry alone
save_material_list_alone(p) ==
    /\ Len(log) < MaxRecords
    /\ phase' = "save_material_list"
    /\ log' = <<MaterialEntry(p, TodayDate)>>
    /\ UNCHANGED <<delivery_no_var, today, last_call>>
    /\ NotLog

\* save_material_list
save_material_list(p) ==
    /\ Len(log) < MaxRecords
    /\ phase' = "save_material_list"
    /\ log' = Append(log, MaterialEntry(p, TodayDate))
    /\ UNCHANGED <<delivery_no_var, today, last_call>>
    /\ NotLog

\* update_client_info_cache(delivery_no, customer, project); last_call keeps
\* the arguments and whether the call before it, with nothing in between,
\* had the same ones
update_client_info_cache(delivery_no, c, p) ==
    /\ CacheHas(log, delivery_no, c, p) \/ Len(log) < MaxRecords
    /\ phase' = "update_client_info_cache"
    /\ log' = IF CacheHas(log, delivery_no, c, p) THEN log
              ELSE Append(log, CacheRecord(delivery_no, c, p))
    /\ last_call' = [delivery_no |-> delivery_no, customer |-> c, project |-> p,
                     again |-> phase = "update_client_info_cache"
                               /\ last_call.delivery_no = delivery_no
                               /\ last_call.customer = c
                               /\ last_call.project = p]
    /\ UNCHANGED <<delivery_no_var, today>>
    /\ NotLog

(***************************************************************************)
(* Uploads and the header of the window                                    *)
(***************************************************************************)
\* a Word document as BaseGenerator.upload_file parses it
DocxFile ==
    [info  |-> [Customer |-> <<"A", "c", "m", "e">>, Date |-> <<"0", "1", "-", "1", "1", "-", "2", "6">>,
                Delivery_Note_No |-> <<"D", "N", "0", "0", "7", "-", "1", "1", "-", "2", "6">>],
     items |-> << <<<<"P", "0", "0", "1">>, <<"S", "t", "e", "e", "l", " ", "P", "i", "p", "e">>, <<"4">> >> >>]

\* a Word document whose item row has an empty quantity cell
DocxFileBlankQty ==
    [DocxFile EXCEPT !.items = << <<<<"P", "0", "0", "1">>, <<"S", "t", "e", "e", "l", " ", "P", "i", "p", "e">>, <<>> >> >>]

DocxFiles == {DocxFile, DocxFileBlankQty}

\* DeliveryNoteGenerator.autofill_from_file_data
autofill_from_file_data(file_data) ==
    /\ customer' = file_data.info.Customer
    /\ doc_date' = file_data.info.Date
    /\ delivery_no_var' = file_data.info.Delivery_Note_No
    /\ item_tree' = [i \in 1..Len(file_data.items) |-> Row(file_data.items[i])]
    /\ dialog' = "Success"

\* upload_file: the clerk cancels, picks a spreadsheet or picks a Word
\* document; the delivery window autofills from whatever was parsed
upload_file(kind, cat, file_data) ==
    /\ Step
    /\ kind \in {"cancel", "xlsx", "docx"}
    /\ phase' = "upload"
    /\ was' = <<0, {}>> /\ api' = None /\ exported' = <<>>
    /\ IF kind = "xlsx"
       THEN /\ products' = cat
            /\ cache_file' = save_products_cache(cache_file, cat, "written")
            /\ loaded' = cat
            /\ combo_display_list' = build_combo_display_list(cat)
            /\ combo_values' = build_combo_display_list(cat)
       ELSE UNCHANGED <<products, cache_file, loaded, combo_display_list,
                        combo_values>>
    /\ IF kind # "cancel" /\ docType = "delivery"
       THEN autofill_from_file_data(
              IF kind = "docx" THEN file_data
              ELSE [info  |-> [Customer |-> <<>>, Date |-> TodayDate,
                               Delivery_Note_No |->
                                   DeliveryNoteNumber(load_all_delivery_notes(log), today)],
                    items |-> <<>>])
       ELSE /\ dialog' = IF kind = "xlsx" THEN "Success" ELSE ""
            /\ UNCHANGED <<customer, doc_date, delivery_no_var, item_tree>>
    /\ UNCHANGED <<docType, typed, detail_frames, selected_items, currency_unit,
                   lookups, edits, log, today, last_call, curVars, docVars,
                   excel_files, returned, ioVars, expVars>>

\* the clerk types in the customer entry
type_customer(c) ==
    /\ Step
    /\ phase' = "type_customer"
    /\ customer' = c
    /\ UNCHANGED <<docType, products, loaded, combo_display_list, combo_values,
                   typed, detail_frames, item_tree, selected_items,
                   currency_unit, lookups, edits, doc_date>>
    /\ Quiet

(***************************************************************************)
(* The window                                                              *)
(***************************************************************************)
Next ==
    \/ \E q \in Queries : on_keyrelease(q)
    \/ \E i \in 1..MaxFrames : toggle_checkbox(i)
    \/ add_selected_items
    \/ select_all_items
    \/ \E S \in SUBSET (1..MaxRows) : select_rows(S)
    \/ remove_selected_item
    \/ reset_items
    \/ move_item_up
    \/ move_item_down
    \/ \E i \in 1..MaxRows, c \in 1..7, text \in EditTexts : on_double_click(i, c, text)
    \/ \E target \in {SAR, USD}, outcome \in ApiOutcomes \cup {None}, r \in LiveRates \cup {0} :
          on_currency_changed(target, outcome, r)
    \/ \E save \in BOOLEAN : export_to_excel(save)
    \/ \E kind \in {"cancel", "xlsx", "docx"}, cat \in Uploads :
          upload_file(kind, cat, DocxFile)
    \/ \E c \in Customers : type_customer(c)

Spec == Init /\ [][Next]_vars

(***************************************************************************)
(* The ledger of a window whose clerk uploads whatever files there are     *)
(***************************************************************************)
NextLedger ==
    \/ \E q \in {<<"p", "0">>} : on_keyrelease(q)
    \/ \E i \in 1..MaxFrames : toggle_checkbox(i)
    \/ add_selected_items
    \/ select_all_items
    \/ \E i \in 1..MaxRows, c \in 1..7, text \in EditTexts : on_double_click(i, c, text)
    \/ \E kind \in {"xlsx", "docx"}, cat \in AnyUploads, file_data \in DocxFiles :
          upload_file(kind, cat, file_data)
    \/ \E save \in BOOLEAN : export_to_excel(save)

SpecLedger == Init /\ [][NextLedger]_vars

(***************************************************************************)
(* The moves of the rows of a ledger that holds up to three rows           *)
(***************************************************************************)
MaxMoveRows == 3

\* the sample product added n times, the quantities then edited to 1..n
EditedLedger(dt, n) ==
    [i \in 1..n |-> Row(format_item_for_tree(dt, [P001 EXCEPT !.Qty = i], SAR))]

InitMoves ==
    /\ InitWidgets
    /\ \E n \in 1..MaxMoveRows :
          /\ item_tree = EditedLedger(docType, n)
          /\ selected_items = [i \in 1..n |-> P001]
    /\ InitLogFile /\ InitHandler /\ InitDocument /\ InitFiles

NextMoves ==
    \/ \E S \in SUBSET (1..MaxMoveRows) : select_rows(S)
    \/ move_item_up
    \/ move_item_down

SpecMoves == InitMoves /\ [][NextMoves]_vars

(***************************************************************************)
(* The header log on its own: the three windows and the cache write append *)
(* to ./backup/client_info_cache.json                                      *)
(***************************************************************************)
InitLog == Init /\ docType = "delivery"

NextLog ==
    \/ generate_delivery_note_number
    \/ \E text \in NumberTexts : type_delivery_no(text)
    \/ \E c \in Clients, p \in Projects : save_delivery_note(c, p)
    \/ \E c \in Clients, p \in Projects : save_dispatch_note(c, p)
    \/ \E p \in Projects : save_material_list(p)
    \/ \E n \in NumberTexts, c \in Clients, p \in Projects :
          update_client_info_cache(n, c, p)

SpecLog == InitLog /\ [][NextLog]_vars

(***************************************************************************)
(* The header log across calendar periods: datetime.now() moves on between *)
(* two calls of generate_delivery_note_number                              *)
(***************************************************************************)
\* now.strftime('%m-%y') of the months the model follows
Periods == <<<<"1", "1", "-", "2", "6">>, <<"1", "2", "-", "2", "6">>, <<"0", "1", "-", "2", "7">>>>

\* the position of today in Periods
PeriodNow == CHOOSE i \in 1..Len(Periods) : Periods[i] = today

\* datetime.now() is in the next month
turn_of_month ==
    /\ PeriodNow < Len(Periods)
    /\ phase' = "turn_of_month"
    /\ today' = Periods[PeriodNow + 1]
    /\ UNCHANGED <<log, delivery_no_var, last_call>>
    /\ NotLog

NextPeriods ==
    \/ generate_delivery_note_number
    \/ \E c \in Clients, p \in Projects : save_delivery_note(c, p)
    \/ \E c \in Clients, p \in Projects : save_dispatch_note(c, p)
    \/ \E p \in Projects : save_material_list(p)
    \/ turn_of_month

SpecPeriods == InitLog /\ [][NextPeriods]_vars

(***************************************************************************)
(* DeliveryNoteGenerator.export_template: the Word export of the delivery  *)
(* window, with the save_delivery_note it ends in                          *)
(***************************************************************************)
\* the paths asksaveasfilename can return; none when the clerk cancels
SavePaths == {<<>>, <<"D", "N", "0", "0", "1", "-", "A", "c", "m", "e", ".", "d", "o", "c", "x">>}

\* the message boxes of the export once the document is on disk: the
\* "Success" of export_template, the "Success" or "Error" of
\* save_delivery_note, and the "Export Failed" of the KeyError that
\* new_entry["Delivery_Note_No"] raises before update_client_info_cache runs
AfterSave(log_written) ==
    <<"Success", IF log_written THEN "Success" ELSE "Error", "Export Failed">>

\* export_template: `template_found` is os.path.exists(default_template),
\* `prepared` whether Document, the placeholder replacement and
\* populate_item_table ran without an exception, `doc_saved` whether
\* doc.save did, `log_written` whether the open and json.dump of
\* save_delivery_note did; p is the text of the project entry
delivery_export_template(template_found, prepared, save_path, doc_saved, log_written, p) ==
    /\ Step
    /\ docType = "delivery"
    /\ Len(log) < MaxRecords
    /\ phase' = "delivery_export_template"
    /\ IF \/ get_export_data(docType, item_tree).raised
          \/ get_export_data(docType, item_tree).data = <<>>
          \/ ~template_found \/ ~prepared
       THEN shown' = <<"Export Failed">> /\ UNCHANGED <<documents, log>>
       ELSE IF save_path = <<>>
       THEN shown' = <<>> /\ UNCHANGED <<documents, log>>
       ELSE IF ~doc_saved
       THEN shown' = <<"Export Failed">> /\ UNCHANGED <<documents, log>>
       ELSE /\ documents' = Append(documents, save_path)
            /\ log' = IF log_written
                      THEN Append(log, DeliveryEntry(delivery_no_var, customer, p))
                      ELSE log
            /\ shown' = AfterSave(log_written)
    /\ dialog' = IF shown' = <<>> THEN "" ELSE shown'[Len(shown')]
    /\ was' = <<0, {}>> /\ api' = None /\ exported' = <<>>
    /\ UNCHANGED <<docType, products, loaded, combo_display_list, combo_values,
                   typed, detail_frames, item_tree, selected_items,
                   currency_unit, lookups, edits, customer, doc_date,
                   delivery_no_var, today, last_call,
                   curVars, docVars, catVars, ioVars>>

InitExport == Init /\ docType = "delivery"

NextExport ==
    \/ \E q \in {<<"p", "0">>} : on_keyrelease(q)
    \/ select_all_items
    \/ \E c \in Customers : type_customer(c)
    \/ generate_delivery_note_number
    \/ \E template_found, prepared, doc_saved, log_written \in BOOLEAN,
          save_path \in SavePaths, p \in Projects :
          delivery_export_template(template_found, prepared, save_path,
                                   doc_saved, log_written, p)

SpecExport == InitExport /\ [][NextExport]_vars

(***************************************************************************)
(* Two processes at the header log.  A writer loads the file, opens it     *)
(* with mode "w", which truncates it, and json.dump and the close put the  *)
(* list at the start of the file.  The file is held as chunks of one size: *)
(* one per record and one for the closing bracket.                         *)
(***************************************************************************)
EndOfList == "]" :> TRUE

\* json.dump of a list
Serialised(records) == records \o <<EndOfList>>

\* load_from_json: the list, or [] when the file is missing or json.load
\* raises (an empty file, data after the closing bracket, no bracket)
load_from_json(f) ==
    IF /\ f # <<>>
       /\ f[Len(f)] = EndOfList
       /\ \A i \in 1..(Len(f) - 1) : f[i] # EndOfList
    THEN SubSeq(f, 1, Len(f) - 1)
    ELSE <<>>

\* write() at offset 0 of the open file and close: what lay beyond stays
Overwritten(f, chunks) == chunks \o SubSeq(f, Len(chunks) + 1, Len(f))

\* the two writers: save_dispatch_note in one process and
\* update_client_info_cache in another
Writers == {1, 2}

\* the list a writer has in hand once it has loaded and appended
InHand(w) == writers[w].data \o <<writers[w].entry>>

\* how many steps the two writers have taken
Clock == LET n(w) == CASE writers[w].pc = "start"  -> 0
                       [] writers[w].pc = "loaded" -> 1
                       [] writers[w].pc = "opened" -> 2
                       [] OTHER -> IF writers[w].wrote_at = 0 THEN 1 ELSE 3
         IN  n(1) + n(2)

NotRace == UNCHANGED <<winVars, logVars, curVars, docVars, catVars, expVars>>

\* all_data = load_from_json(filename); update_client_info_cache has
\* nothing to write when the record is there already
load(w) ==
    /\ writers[w].pc = "start"
    /\ phase' = "load"
    /\ writers' = [writers EXCEPT
                     ![w].data = load_from_json(file),
                     ![w].loaded_at = Clock + 1,
                     ![w].pc = IF w = 2 /\ \E i \in 1..Len(load_from_json(file)) :
                                              load_from_json(file)[i] = writers[w].entry
                               THEN "done" ELSE "loaded"]
    /\ UNCHANGED file
    /\ NotRace

\* open(filename, "w")
open(w) ==
    /\ writers[w].pc = "loaded"
    /\ phase' = "open"
    /\ file' = <<>>
    /\ writers' = [writers EXCEPT ![w].pc = "opened"]
    /\ NotRace

\* json.dump(all_data, f) and the end of the with block
dump(w) ==
    /\ writers[w].pc = "opened"
    /\ phase' = "dump"
    /\ file' = Overwritten(file, Serialised(InHand(w)))
    /\ writers' = [writers EXCEPT ![w].pc = "done", ![w].wrote_at = Clock + 1]
    /\ NotRace

\* the logs the two processes can find
RaceLogs ==
    {<<>>,
     <<MaterialEntry(<<"V", "i", "l", "l", "a">>, TodayDate)>>,
     <<MaterialEntry(<<"V", "i", "l", "l", "a">>, TodayDate), CacheRecord(<<"D", "N", "0", "1", "2", "-", "1", "1", "-", "2", "6">>, <<"A", "c", "m", "e">>, <<"V", "i", "l", "l", "a">>)>>}

InitRace ==
    /\ InitWindow /\ docType = "dispatch"
    /\ InitHandler /\ InitDocument /\ InitFiles
    /\ log = <<>> /\ delivery_no_var = <<>> /\ today = TodayMY /\ last_call = None
    /\ \E records \in RaceLogs : file = Serialised(records)
    /\ \E c \in Clients, p \in Projects, n \in NumberTexts :
          writers = <<[pc |-> "start", data |-> <<>>, loaded_at |-> 0, wrote_at |-> 0,
                       entry |-> DispatchEntry(c, p, TodayDate)],
                      [pc |-> "start", data |-> <<>>, loaded_at |-> 0, wrote_at |-> 0,
                       entry |-> CacheRecord(n, c, p)]>>

NextRace ==
    \/ \E w \in Writers : load(w)
    \/ \E w \in Writers : open(w)
    \/ \E w \in Writers : dump(w)

SpecRace == InitRace /\ [][NextRace]_vars

(***************************************************************************)
(* common/currency_handler.py: CurrencyHandler                             *)
(***************************************************************************)
\* str.upper() over the model's alphabet
UpperChar(c) == IF \E i \in 1..Len(Lower) : Lower[i] = c
                THEN Upper[CHOOSE i \in 1..Len(Lower) : Lower[i] = c] ELSE c

StrUpper(s) == [i \in 1..Len(s) |-> UpperChar(s[i])]

\* amounts handed to convert and format, in hundredths
Amounts == {0, 50, 850, 10000, 10850, 123456, -850}

\* currency arguments: None (<<>>), the two supported ones, a lower-case
\* spelling and an unsupported one
CurrencyArgs == {<<>>, SAR, USD, <<"u", "s", "d">>, <<"E", "U", "R">>}

\* to_currency.upper() if to_currency else self.currency
Target(to, own) == IF to # <<>> THEN StrUpper(to) ELSE own

\* the rate convert multiplies by: the static one unless a live rate came back
ConvertRate(to, live, outcome, r) ==
    IF live /\ to # SAR /\ get_live_rate(outcome, r) # 0
    THEN DblFromRatio(get_live_rate(outcome, r), 10000)
    ELSE StaticRate(to)

\* Decimal(x).quantize(Decimal("0.01"), rounding=ROUND_HALF_UP) as hundredths
Quantize(x) == IF x.neg THEN 0 - DblScaled(x, 100, TRUE) ELSE DblScaled(x, 100, TRUE)

\* CurrencyHandler.convert: [raised, value]; the value is the float of the
\* quantized Decimal
convert(a, to, live, outcome, r, own) ==
    IF Target(to, own) \notin DOMAIN StaticRates
    THEN [raised |-> TRUE, value |-> DblZero]
    ELSE [raised |-> FALSE,
          value  |-> DblFromRatio(
                       Quantize(DblMul(DblFromRatio(a, 100),
                                       ConvertRate(Target(to, own), live, outcome, r))),
                       100)]

\* f"{currency} {value:,.2f}"
Formatted(cur, converted) ==
    IF converted.raised THEN [raised |-> TRUE, value |-> <<>>]
    ELSE [raised |-> FALSE, value |-> cur \o <<" ">> \o FmtDbl(converted.value, 2, TRUE)]

\* CurrencyHandler.format: [raised, value]
format(a, cur, live, outcome, r, own) ==
    Formatted(Target(cur, own),
              convert(a, Target(cur, own), live, outcome, r, own))

NotCurrency ==
    UNCHANGED <<winVars, logVars, docVars, catVars, ioVars, expVars, amount, to_currency, live_rate,
                lookup>>

\* a call of CurrencyHandler.convert with the arguments of the state
call_convert ==
    /\ phase \in {"init", "set_currency"}
    /\ phase' = "convert"
    /\ \E r \in LiveRates :
          result' = convert(amount, to_currency, live_rate, lookup, r, self_currency)
    /\ UNCHANGED self_currency
    /\ NotCurrency

\* a call of CurrencyHandler.format with the arguments of the state
call_format ==
    /\ phase \in {"init", "set_currency"}
    /\ phase' = "format"
    /\ \E r \in LiveRates :
          result' = format(amount, to_currency, live_rate, lookup, r, self_currency)
    /\ UNCHANGED self_currency
    /\ NotCurrency

\* CurrencyHandler.set_currency
set_currency(code) ==
    /\ phase = "init"
    /\ phase' = "set_currency"
    /\ IF StrUpper(code) \in DOMAIN StaticRates
       THEN self_currency' = StrUpper(code) /\ result' = [raised |-> FALSE, value |-> <<>>]
       ELSE self_currency' = self_currency /\ result' = [raised |-> TRUE, value |-> <<>>]
    /\ NotCurrency

\* a CurrencyHandler() and the arguments of the call to come; `lookup` is
\* how the exchange-rate service answers if the call asks it
InitCurrency ==
    /\ InitWindow /\ docType = "delivery"
    /\ InitLogFile
    /\ amount \in Amounts
    /\ to_currency \in CurrencyArgs
    /\ live_rate \in BOOLEAN
    /\ lookup \in ApiOutcomes
    /\ result = [raised |-> FALSE, value |-> <<>>]
    /\ self_currency = SAR
    /\ InitDocument /\ InitFiles

NextCurrency ==
    \/ call_convert
    \/ call_format
    \/ \E code \in CurrencyArgs \ {<<>>} : set_currency(code)

SpecCurrency == InitCurrency /\ [][NextCurrency]_vars

(***************************************************************************)
(* Word templates.  A paragraph is the sequence of the texts of its runs;  *)
(* a document has body, header and footer paragraphs.                      *)
(***************************************************************************)
\* s.replace(old, new), old not empty: leftmost occurrences, left to right
RECURSIVE Replace(_, _, _)
Replace(s, old, new) ==
    IF Len(s) < Len(old) THEN s
    ELSE IF SubSeq(s, 1, Len(old)) = old
         THEN new \o Replace(SubSeq(s, Len(old) + 1, Len(s)), old, new)
         ELSE <<Head(s)>> \o Replace(Tail(s), old, new)

\* paragraph.text, ''.join(run.text for run in paragraph.runs)
RECURSIVE ParagraphText(_)
ParagraphText(runs) ==
    IF runs = <<>> THEN <<>> ELSE Head(runs) \o ParagraphText(Tail(runs))

\* replace_placeholder_in_paragraph: the paragraph's runs afterwards
replace_placeholder_in_paragraph(paragraph, placeholder, value) ==
    IF Contains(ParagraphText(paragraph), placeholder)
    THEN [i \in 1..Len(paragraph) |->
             IF i = 1 THEN Replace(ParagraphText(paragraph), placeholder, value)
             ELSE <<>>]
    ELSE paragraph

\* f"{{{key}}}"
Token(key) == <<"{">> \o key \o <<"}">>

\* for key, value in placeholders.items(): replace_placeholder_in_paragraph
RECURSIVE ReplaceEach(_, _, _)
ReplaceEach(paragraph, ph, i) ==
    IF i > Len(ph) THEN paragraph
    ELSE ReplaceEach(replace_placeholder_in_paragraph(paragraph, Token(ph[i][1]),
                                                      ph[i][2]),
                     ph, i + 1)

\* the loop over the paragraphs of one part of the document
ReplaceIn(paragraphs, ph) ==
    [j \in 1..Len(paragraphs) |-> ReplaceEach(paragraphs[j], ph, 1)]

\* the header loop of test_app.py: key and val are what the loop over the
\* body left in them, the last pair of the dict
ReplaceLastIn(paragraphs, ph) ==
    [j \in 1..Len(paragraphs) |->
        replace_placeholder_in_paragraph(paragraphs[j], Token(ph[Len(ph)][1]),
                                         ph[Len(ph)][2])]

\* the paragraphs a template of the model is made of
Paragraphs ==
    { <<<<"D", "e", "a", "r", " ", "{", "C", "u", "s", "t", "o", "m", "e", "r", "}">>>>,
      <<<<"T", "o", " ", "{", "C", "u", "s">>, <<"t", "o", "m", "e", "r", "}", " ", "o", "n", " ", "{", "D", "a", "t", "e", "}">>>>,
      <<<<"{", "D", "a", "t", "e", "}">>, <<" ", "t", "o", " ">>, <<"{", "D", "a", "t", "e", "}">>>>,
      <<<<"T", "h", "a", "n", "k", "s">>, <<" ", "a", "l", "l">>>>,
      <<>> }

\* the templates: a body of no or one paragraph, one header paragraph, one
\* footer paragraph
Templates ==
    [body   : {<<>>} \cup {<<p>> : p \in Paragraphs},
     header : {<<p>> : p \in Paragraphs},
     footer : {<<p>> : p \in Paragraphs}]

\* the placeholders dict: its first and its last key, with the entries' texts
PlaceholderDicts ==
    { << <<<<"C", "u", "s", "t", "o", "m", "e", "r">>, c>>, <<<<"D", "a", "t", "e">>, TodayDate>> >> : c \in {<<"A", "c", "m", "e">>, <<"A", "l", " ", "N", "o", "o", "r">>} }

NotDocument ==
    UNCHANGED <<winVars, logVars, curVars, catVars, ioVars, expVars, template, placeholders,
                tables, export_data>>

\* export_template of the dispatch note and of the material list: the
\* three loops that replace the placeholders
export_template_placeholders ==
    /\ phase = "init"
    /\ phase' = "export_template"
    /\ doc' = [body   |-> ReplaceIn(template.body, placeholders),
               header |-> ReplaceIn(template.header, placeholders),
               footer |-> ReplaceIn(template.footer, placeholders)]
    /\ doc_error' = FALSE
    /\ NotDocument

\* export_template of test_app.py: the header loop has no loop over the
\* dict, and with no body paragraph its key and val are unbound (NameError,
\* caught: "Export Failed", nothing is saved)
test_app_export_template_placeholders ==
    /\ phase = "init"
    /\ phase' = "test_app_export_template"
    /\ IF template.body = <<>> /\ template.header # <<>>
       THEN doc' = template /\ doc_error' = TRUE
       ELSE /\ doc' = [body   |-> ReplaceIn(template.body, placeholders),
                       header |-> ReplaceLastIn(template.header, placeholders),
                       footer |-> ReplaceIn(template.footer, placeholders)]
            /\ doc_error' = FALSE
    /\ NotDocument

\* a template is opened and the header entries are read
InitTemplate ==
    /\ InitWindow /\ docType = "dispatch"
    /\ InitLogFile /\ InitHandler /\ InitFiles
    /\ template \in Templates
    /\ placeholders \in PlaceholderDicts
    /\ doc = template
    /\ doc_error = FALSE
    /\ tables = <<>>
    /\ export_data = <<>>

NextTemplate ==
    \/ export_template_placeholders
    \/ test_app_export_template_placeholders

SpecTemplate == InitTemplate /\ [][NextTemplate]_vars

(***************************************************************************)
(* populate_item_table: the item table of a Word template                  *)
(***************************************************************************)
\* the header cells that mark the item table of a window's template
MarkerHeaders(dt) ==
    IF dt = "material" THEN {<<"i", "t", "e", "m">>, <<"p", "a", "r", "t", " ", "n", "u", "m", "b", "e", "r">>, <<"d", "e", "s", "c", "r", "i", "p", "t", "i", "o", "n">>, <<"q", "t", "y">>}
    ELSE {<<"n", "o", ".">>, <<"i", "t", "e", "m">>, <<"d", "e", "s", "c", "r", "i", "p", "t", "i", "o", "n">>}

\* [cell.text.strip().lower() for cell in table.rows[0].cells]
Headers(table) == {StrLower(Strip(table[1][k])) : k \in 1..Len(table[1])}

IsItemTable(dt, table) == Len(table) > 0 /\ MarkerHeaders(dt) \subseteq Headers(table)

\* the position of the first table with the marker headers, 0 when none
FirstItemTable(dt, tbls) ==
    IF \E t \in 1..Len(tbls) : IsItemTable(dt, tbls[t])
    THEN CHOOSE t \in 1..Len(tbls) :
            /\ IsItemTable(dt, tbls[t])
            /\ \A u \in 1..(t - 1) : ~IsItemTable(dt, tbls[u])
    ELSE 0

\* the row add_row() appends, as wide as the table, once the loop has
\* written the item into it: a row of fewer than four cells stays empty
ItemRow(width, i, item) ==
    [k \in 1..width |->
        IF width < 4 THEN <<>>
        ELSE CASE k = 1 -> IntStr(i)
               [] k = 2 -> StrOf(item["Part Number"])
               [] k = 3 -> StrOf(item["Description"])
               [] k = 4 -> StrOf(item["Qty"])
               [] OTHER -> <<>>]

\* a variant that does not clear the rows below the header
PopulatedBelow(table, data) ==
    table \o [i \in 1..Len(data) |-> ItemRow(Len(table[1]), i, data[i])]

\* the item table once its body rows are removed and the items appended
Populated(table, data) ==
    <<table[1]>> \o [i \in 1..Len(data) |-> ItemRow(Len(table[1]), i, data[i])]

\* an item of export_data: the delivery and dispatch windows hand the
\* quantity over as an int, the material list as the text of the ledger
Item1 == "Part Number" :> PyStr(<<"P", "0", "0", "1">>) @@ "Description" :> PyStr(<<"S", "t", "e", "e", "l", " ", "P", "i", "p", "e">>)
         @@ "Qty" :> PyIntV(3)
Item2 == "Part Number" :> PyStr(<<"p", "0", "0", "2">>) @@ "Description" :> PyStr(<<"C", "o", "p", "p", "e", "r", " ", "W", "i", "r", "e">>)
         @@ "Qty" :> PyStr(<<"1", " ", "p", "c", "s">>)

ItemLists == {<<>>, <<Item1>>, <<Item2, Item1>>}

\* tables of a template: the header information, and item tables of four,
\* five and three columns and of the material list, each with rows left
\* over below its header
InfoTable == << <<<<"C", "u", "s", "t", "o", "m", "e", "r", ":", " ", "{", "C", "u", "s", "t", "o", "m", "e", "r", "}">>, <<"D", "a", "t", "e", ":", " ", "{", "D", "a", "t", "e", "}">>>> >>
ItemTable4 == << <<<<"N", "o", ".">>, <<"I", "t", "e", "m">>, <<"D", "e", "s", "c", "r", "i", "p", "t", "i", "o", "n">>, <<"Q", "t", "y">>>>,
                 <<<<"1">>, <<"X", "1">>, <<"o", "l", "d", " ", "r", "o", "w">>, <<"9">>>> >>
ItemTable5 == << <<<<" ", "N", "O", ".", " ">>, <<"I", "T", "E", "M">>, <<"D", "e", "s", "c", "r", "i", "p", "t", "i", "o", "n">>, <<"Q", "t", "y">>, <<"R", "e", "m", "a", "r", "k", "s">>>>,
                 <<<<"1">>, <<"X", "1">>, <<"o", "l", "d", " ", "r", "o", "w">>, <<"9">>, <<"f", "r", "a", "g", "i", "l", "e">>>>,
                 <<<<"2">>, <<"X", "2">>, <<"o", "l", "d", "e", "r", " ", "r", "o", "w">>, <<"8">>, <<>> >> >>
ItemTable3 == << <<<<"N", "o", ".">>, <<"I", "t", "e", "m">>, <<"D", "e", "s", "c", "r", "i", "p", "t", "i", "o", "n">>>>,
                 <<<<"1">>, <<"X", "1">>, <<"o", "l", "d", " ", "r", "o", "w">>>> >>
MaterialTable == << <<<<"I", "t", "e", "m">>, <<"P", "a", "r", "t", " ", "N", "u", "m", "b", "e", "r">>, <<"D", "e", "s", "c", "r", "i", "p", "t", "i", "o", "n">>, <<"Q", "t", "y">>>>,
                    <<<<"1">>, <<"X", "1">>, <<"o", "l", "d", " ", "r", "o", "w">>, <<"9">>>> >>

Documents ==
    {<<>>, <<InfoTable>>, <<ItemTable4>>, <<InfoTable, ItemTable4>>,
     <<InfoTable, ItemTable5, ItemTable4>>, <<InfoTable, ItemTable3>>,
     <<InfoTable, MaterialTable>>}

\* populate_item_table: nothing without a table, ValueError (caught by
\* export_template) without an item table
populate_item_table ==
    /\ phase' = "populate_item_table"
    /\ IF tables = <<>>
       THEN tables' = tables /\ doc_error' = FALSE
       ELSE IF FirstItemTable(docType, tables) = 0
       THEN tables' = tables /\ doc_error' = TRUE
       ELSE /\ tables' = [tables EXCEPT ![FirstItemTable(docType, tables)] =
                             Populated(@, export_data)]
            /\ doc_error' = FALSE
    /\ UNCHANGED <<winVars, logVars, curVars, catVars, ioVars, expVars, template, placeholders, doc,
                   export_data>>

\* the export hands another list of items over
set_export_data(data) ==
    /\ data # export_data
    /\ phase' = "get_export_data"
    /\ export_data' = data
    /\ UNCHANGED <<winVars, logVars, curVars, catVars, ioVars, expVars, template, placeholders, doc,
                   doc_error, tables>>

\* a template is opened and the items of the export are at hand
InitTable ==
    /\ InitWindow
    /\ InitLogFile /\ InitHandler /\ InitFiles
    /\ template = [body |-> <<>>, header |-> <<>>, footer |-> <<>>]
    /\ placeholders = <<>>
    /\ doc = template
    /\ doc_error = FALSE
    /\ tables \in Documents
    /\ export_data \in ItemLists

NextTable ==
    \/ populate_item_table
    \/ \E data \in ItemLists : set_export_data(data)

SpecTable == InitTable /\ [][NextTable]_vars

(***************************************************************************)
(* common/excel_handler.py: the catalog, its spreadsheet and its cache     *)
(***************************************************************************)
\* what a spreadsheet can hold
SheetRows == {<<>>, <<P002, P001>>}
Sheets == {NoFile, Unreadable} \cup {Holding(rows) : rows \in SheetRows}

\* the try block of get_products: what it returns or that it raised, and
\* whether it went on to save_products_cache
TryGetProducts(file_path, cache, files) ==
    LET cached_products == IF file_path = None THEN load_products_cache(cache)
                           ELSE PyNone
        excel_file == IF file_path = None THEN DEFAULT_FILE_NAME ELSE file_path
    IN  IF file_path = None /\ cached_products.t = "list" /\ cached_products.v # <<>>
        THEN [raised |-> FALSE, value |-> cached_products, save |-> FALSE]
        ELSE IF files[excel_file].t = "missing"
        THEN [raised |-> FALSE, value |-> PyList(get_sample_products), save |-> FALSE]
        ELSE IF files[excel_file].t = "malformed"
        THEN [raised |-> TRUE, value |-> PyNone, save |-> FALSE]
        ELSE [raised |-> FALSE, value |-> PyList(files[excel_file].v),
              save |-> files[excel_file].v # <<>>]

\* get_products without its except clause
get_products_uncaught(file_path, cache, files) ==
    TryGetProducts(file_path, cache, files)

\* get_products: an exception of the try block ends in the sample set
get_products(file_path, cache, files) ==
    IF TryGetProducts(file_path, cache, files).raised
    THEN [raised |-> FALSE, value |-> PyList(get_sample_products), save |-> FALSE]
    ELSE TryGetProducts(file_path, cache, files)

NotCatalog == UNCHANGED <<winVars, logVars, curVars, docVars, ioVars, expVars>>

\* a call of get_products, with or without a path
call_get_products(file_path, outcome) ==
    /\ phase' = "get_products"
    /\ returned' = [file_path |-> file_path,
                    raised    |-> get_products(file_path, cache_file, excel_files).raised,
                    value     |-> get_products(file_path, cache_file, excel_files).value]
    /\ cache_file' = IF get_products(file_path, cache_file, excel_files).save
                     THEN save_products_cache(cache_file,
                              get_products(file_path, cache_file, excel_files).value.v,
                              outcome)
                     ELSE cache_file
    /\ UNCHANGED excel_files
    /\ NotCatalog

\* the clerk puts a spreadsheet at a path, replaces it or deletes it
put_spreadsheet(path, sheet) ==
    /\ excel_files[path] # sheet
    /\ phase' = "put_spreadsheet"
    /\ excel_files' = [excel_files EXCEPT ![path] = sheet]
    /\ UNCHANGED <<cache_file, returned>>
    /\ NotCatalog

\* the installation as a first launch finds it: no cache yet
InitCatalog ==
    /\ InitWindow /\ docType = "dispatch"
    /\ InitLogFile /\ InitHandler /\ InitDocument
    /\ cache_file = NoFile
    /\ excel_files \in [Paths -> Sheets]
    /\ returned = [file_path |-> None, raised |-> FALSE, value |-> PyNone]

\* calls of get_products, changes of the spreadsheets, and uploads of the
\* spreadsheet at "new.xlsx" through the window
NextCatalog ==
    \/ \E file_path \in {None, "new.xlsx"}, outcome \in WriteOutcomes :
          call_get_products(file_path, outcome)
    \/ \E path \in Paths, sheet \in Sheets : put_spreadsheet(path, sheet)
    \/ /\ excel_files["new.xlsx"].t = "rows"
       /\ upload_file("xlsx", excel_files["new.xlsx"].v, DocxFile)

SpecCatalog == InitCatalog /\ [][NextCatalog]_vars

(***************************************************************************)
(* The cache across uploads and restarts: spreadsheets of any columns      *)
(***************************************************************************)
\* a row of a spreadsheet that has no 'Part Number' column
Unlabelled == [Description |-> <<"V", "a", "l", "v", "e">>, Supplier |-> <<"E", "T">>, UnitPrice |-> 900,
               Weight |-> 300, Qty |-> 1]

\* the spreadsheets a clerk can pick, with the required columns or not
AnySheets == Sheets \cup {Holding(<<Unlabelled>>)}

\* p['Part Number'] and p['Description'] of build_combo_display_list find
\* their keys
Labelled(p) == {"PartNumber", "Description"} \subseteq DOMAIN p

\* build_combo_display_list raises KeyError
BuildRaises(ps) == \E i \in 1..Len(ps) : ~Labelled(ps[i])

\* BaseGenerator.upload_file for a spreadsheet, whatever its columns: the
\* rows go to self.products and to the cache, then the search list is
\* built; a KeyError there leaves the handler before the list and the
\* message box
upload_catalog(path, outcome) ==
    /\ excel_files[path].t = "rows"
    /\ phase' = IF BuildRaises(excel_files[path].v) THEN "upload_raised" ELSE "upload"
    /\ products' = excel_files[path].v
    /\ loaded' = excel_files[path].v
    /\ cache_file' = save_products_cache(cache_file, excel_files[path].v, outcome)
    /\ IF BuildRaises(excel_files[path].v)
       THEN UNCHANGED <<combo_display_list, combo_values, dialog>>
       ELSE /\ combo_display_list' = build_combo_display_list(excel_files[path].v)
            /\ combo_values' = build_combo_display_list(excel_files[path].v)
            /\ dialog' = "Success"
    /\ was' = <<0, {}>> /\ api' = None /\ exported' = <<>>
    /\ UNCHANGED <<docType, typed, detail_frames, item_tree, selected_items,
                   currency_unit, lookups, customer, doc_date, edits, steps,
                   excel_files, returned, logVars, curVars, docVars, ioVars,
                   expVars>>

\* the application is started again and BaseGenerator.__init__ runs:
\* get_products(), then build_combo_display_list, whose KeyError ends the
\* constructor
restart(outcome) ==
    /\ phase' = IF BuildRaises(get_products(None, cache_file, excel_files).value.v)
                THEN "init_raised" ELSE "init"
    /\ returned' = [file_path |-> None,
                    raised    |-> get_products(None, cache_file, excel_files).raised,
                    value     |-> get_products(None, cache_file, excel_files).value]
    /\ cache_file' = IF get_products(None, cache_file, excel_files).save
                     THEN save_products_cache(cache_file,
                              get_products(None, cache_file, excel_files).value.v,
                              outcome)
                     ELSE cache_file
    /\ products' = get_products(None, cache_file, excel_files).value.v
    /\ loaded' = products'
    /\ combo_display_list' = IF BuildRaises(products') THEN <<>>
                             ELSE build_combo_display_list(products')
    /\ combo_values' = combo_display_list'
    /\ typed' = <<>> /\ detail_frames' = <<>>
    /\ item_tree' = <<>> /\ selected_items' = <<>>
    /\ currency_unit' = SAR /\ api' = None /\ dialog' = ""
    /\ was' = <<0, {}>> /\ customer' = <<>> /\ doc_date' = TodayDate
    /\ exported' = <<>>
    /\ UNCHANGED <<docType, lookups, edits, steps, excel_files, logVars,
                   curVars, docVars, ioVars, expVars>>

\* a dispatch window on a fresh installation
InitRestart == Init /\ docType = "dispatch"

NextRestart ==
    \/ \E path \in Paths, sheet \in AnySheets : put_spreadsheet(path, sheet)
    \/ \E path \in Paths, outcome \in WriteOutcomes : upload_catalog(path, outcome)
    \/ \E outcome \in WriteOutcomes : restart(outcome)

SpecRestart == InitRestart /\ [][NextRestart]_vars

(***************************************************************************)
(* Properties of the search, the ledger and the catalog                    *)
(***************************************************************************)
\* t occurs in s when case is ignored
Occurs(t, s) ==
    \E k \in 0..(Len(s) - Len(t)) :
        \A j \in 1..Len(t) : LowerChar(s[k + j]) = LowerChar(t[j])

\* the catalog products whose Part Number or Description holds the query
Found(ps, q) ==
    SelectSeq(ps, LAMBDA p : Occurs(q, p.PartNumber) \/ Occurs(q, p.Description))

\* C1: after a key release in the search box the combobox lists exactly the
\* catalog products whose Part Number or Description contains the typed
\* text as a substring, case ignored, in catalog order; for a query that is
\* not empty the product frames show the same products, and for the empty
\* query the list is the whole catalog in its order.
C1_SearchIsTheFilter ==
    phase = "keyrelease" =>
        /\ combo_values = [i \in 1..Len(Found(products, typed)) |->
                              Display(Found(products, typed)[i])]
        /\ typed # <<>> =>
              [i \in 1..Len(detail_frames) |-> detail_frames[i].product]
                  = Found(products, typed)
        /\ typed = <<>> => combo_values = build_combo_display_list(products)

\* "PIPE" typed over the uploaded catalog finds the one product whose
\* Description, not its Part Number, holds "Pipe"
C1_Witness ==
    /\ phase = "keyrelease"
    /\ typed = <<"P", "I", "P", "E">>
    /\ products = <<P002, P001>>
    /\ combo_values = <<Display(P001)>>
    /\ Len(detail_frames) = 1

\* C4: whatever the clerk adds, selects, edits, removes, moves, resets or
\* reprices, the catalog holds the products of the last load or upload, in
\* the same order and with the same field values.
C4_CatalogUnchanged == products = loaded

\* an accepted edit and a switch to USD have been made on a ledger that
\* still holds a row added from the catalog
C4_Witness ==
    /\ products = loaded
    /\ edits = 1
    /\ currency_unit = USD
    /\ item_tree # <<>>
    /\ selected_items # <<>>

\* C5: remove_selected_item on a ledger of exactly one row empties the
\* ledger, with or without a selection.
C5_OnlyRowIsRemoved ==
    (phase = "remove" /\ was[1] = 1) => item_tree = <<>>

\* the only row was removed with nothing selected
C5_Witness ==
    /\ phase = "remove"
    /\ was = <<1, {}>>
    /\ item_tree = <<>>
    /\ dialog = ""

\* C6: remove_selected_item on a ledger of two or more rows with no row
\* selected warns "No Selection" and leaves the ledger rows, their order and
\* selected_items as they were.
C6_NoSelectionIsRejected ==
    [][(phase' = "remove" /\ Len(item_tree) >= 2 /\ Selection(item_tree) = {})
          => /\ item_tree' = item_tree
             /\ selected_items' = selected_items
             /\ dialog' = "No Selection"]_vars

\* the button was pressed on two rows, none selected, and both are there
C6_Witness ==
    /\ phase = "remove"
    /\ was = <<2, {}>>
    /\ dialog = "No Selection"
    /\ Len(item_tree) = 2
    /\ Len(selected_items) = 2

(***************************************************************************)
(* Properties of the header log                                            *)
(***************************************************************************)
\* the records of the log that carry the key of a call
WithKey(data, call) ==
    {i \in 1..Len(data) :
        /\ GetEq(data[i], "Customer", call.customer)
        /\ GetEq(data[i], "Project_Name", call.project)
        /\ GetEq(data[i], "Delivery_No", call.delivery_no)}

\* C2: update_client_info_cache is idempotent on (customer, project,
\* document number): after a call the log holds exactly one record with the
\* key of the call, whatever the log held before, and a call that repeats
\* the call before it leaves the log as it was.
C2_AppendIfNewIsIdempotent ==
    /\ [](phase = "update_client_info_cache"
             => Cardinality(WithKey(log, last_call)) = 1)
    /\ [][(phase = "update_client_info_cache"
             /\ phase' = "update_client_info_cache"
             /\ last_call'.delivery_no = last_call.delivery_no
             /\ last_call'.customer = last_call.customer
             /\ last_call'.project = last_call.project)
          => log' = log]_vars

\* the same call was made twice on a log that holds a saved note as well
C2_Witness ==
    /\ phase = "update_client_info_cache"
    /\ last_call.again
    /\ Len(log) = 2
    /\ Cardinality(WithKey(log, last_call)) = 1

\* the number part of a document number: the text between "DN" and the
\* first "-"
RECURSIVE UpToDash(_)
UpToDash(s) ==
    IF s = <<>> \/ Head(s) = "-" THEN <<>> ELSE <<Head(s)>> \o UpToDash(Tail(s))

SeqDigits(dn) == UpToDash(Slice(dn, 2, Len(dn)))

\* 'DN', the zero-padded n and a month-year suffix
IsNumbered(dn) ==
    /\ Len(dn) >= 2 /\ SubSeq(dn, 1, 2) = <<"D", "N">>
    /\ SeqDigits(dn) # <<>> /\ AllDigits(SeqDigits(dn))
    /\ SeqDigits(dn) = FmtInt(DigitsVal(SeqDigits(dn)), 3)
    /\ Len(dn) = 2 + Len(SeqDigits(dn)) + 6
    /\ dn[2 + Len(SeqDigits(dn)) + 1] = "-"

\* C3: generate_delivery_note_number gives sequence 1 on an empty log; when
\* the last record's number is 'DN', the zero-padded n and a month-year
\* suffix it gives n+1 with the current month and year; when the last
\* record has no sequence digits to parse it gives len(records)+1.
C3_NextDocumentNumber ==
    phase = "generate" =>
        delivery_no_var = <<"D", "N">> \o
            FmtInt(IF log = <<>> THEN 1
                   ELSE IF IsNumbered(GetOr(log[Len(log)], "Delivery Note No."))
                        THEN DigitsVal(SeqDigits(GetOr(log[Len(log)],
                                                       "Delivery Note No."))) + 1
                   ELSE IF ~AllDigits(SeqDigits(GetOr(log[Len(log)],
                                                      "Delivery Note No.")))
                           \/ SeqDigits(GetOr(log[Len(log)],
                                              "Delivery Note No.")) = <<>>
                        THEN Len(log) + 1
                   ELSE NextSeq(log), 3)
            \o <<"-">> \o today

(***************************************************************************)
(* Properties of CurrencyHandler                                           *)
(***************************************************************************)
Abs(n) == IF n < 0 THEN 0 - n ELSE n

\* n / 100 rounded to an integer, halves away from zero
HalfUp100(n) == IF n < 0 THEN 0 - ((Abs(n) + 50) \div 100) ELSE (n + 50) \div 100

\* C7: format(amount, currency) is the currency code, one space and the
\* given amount itself with thousands separators and two decimals, as in
\* format(108.5, "USD") = "USD 108.50".
C7_FormatKeepsTheAmount ==
    (phase = "format" /\ ~result.raised) =>
        result.value = Target(to_currency, self_currency) \o <<" ">>
                           \o FmtFixed(amount < 0, Abs(amount), 2, TRUE)

\* C8: convert with the static table is the amount times the static rate of
\* the target, rounded half up to two decimals (100 SAR is 27.00 USD, and
\* SAR to SAR is the identity); a target outside the table is an error.
C8_ConvertRoundsHalfUp ==
    (phase = "convert" /\ ~live_rate) =>
        IF Target(to_currency, self_currency) \in {SAR, USD}
        THEN /\ ~result.raised
             /\ result.value =
                   DblFromRatio(
                     HalfUp100(amount * StaticRates[Target(to_currency, self_currency)]),
                     100)
        ELSE result.raised

(***************************************************************************)
(* Properties of the currency switch and of the export                     *)
(***************************************************************************)
\* the position of a column of the ledger
ColumnOf(dt, name) ==
    CHOOSE k \in 1..Len(get_treeview_columns(dt)) : get_treeview_columns(dt)[k] = name

\* the number in a price cell: the text without its currency code and commas
PriceIn(cell) ==
    PyFloat(Strip(Remove(Remove(Remove(cell, SAR), USD), <<",">>)))

\* C9: when the ledger is switched to USD and the rate lookup fails (no API
\* key, an exception, an unsuccessful response, the currency missing), the
\* handler still runs to its end and every Unit Price becomes the old price
\* times the static rate of USD.
C9_LedgerFallsBackToStaticRate ==
    [][(phase' = "currency" /\ currency_unit' = USD
          /\ api' \in ApiOutcomes \ {"rate"})
       => /\ Len(item_tree') = Len(item_tree)
          /\ \A i \in 1..Len(item_tree) :
                (/\ ColumnOf(docType, "Unit Price") <= Len(item_tree[i].values)
                 /\ PriceIn(item_tree[i].values[ColumnOf(docType, "Unit Price")]).ok)
                => item_tree'[i].values[ColumnOf(docType, "Unit Price")]
                     = format_price(
                         DblMul(PriceIn(item_tree[i].values[
                                           ColumnOf(docType, "Unit Price")]).v,
                                StaticRate(USD)),
                         USD)]_vars

\* the same Python value
Same(a, b) == a.t = b.t /\ a.v = b.v

\* the cell of the one exported row under a column of the document type
Cell(name) == exported[1][ColumnOf(docType, name)]

\* C10: with the catalog of the single product P001 (unit price 25.50,
\* weight 2.5), P001 added to the ledger and its quantity edited to 3, the
\* exported spreadsheet has exactly one data row with Qty 3, Unit Price
\* 25.50, Weight 2.5 and, where the document type has a total, Total Price
\* 76.50, in each of the three document types.
C10_ExportedRowIsNumeric ==
    (/\ phase = "export" /\ dialog = "Export Successful"
     /\ products = <<P001>>
     /\ Len(item_tree) = 1
     /\ item_tree[1].values =
           [format_item_for_tree(docType, P001, SAR)
               EXCEPT ![ColumnOf(docType, "Qty")] = format_qty(3)])
    => /\ Len(exported) = 1
       /\ Same(Cell("Qty"), PyIntV(3))
       /\ Same(Cell("Unit Price"), PyFloatV(DblFromRatio(2550, 100)))
       /\ Same(Cell("Weight"), PyFloatV(DblFromRatio(25, 10)))
       /\ \A k \in 1..Len(get_treeview_columns(docType)) :
             get_treeview_columns(docType)[k] = "Total Price"
                => Same(exported[1][k], PyFloatV(DblFromRatio(7650, 100)))

(***************************************************************************)
(* Properties of the Word templates                                        *)
(***************************************************************************)
\* a text with every token replaced by the value of its field
RECURSIVE Substituted(_, _, _)
Substituted(text, ph, i) ==
    IF i > Len(ph) THEN text
    ELSE Substituted(Replace(text, Token(ph[i][1]), ph[i][2]), ph, i + 1)

HasToken(text, ph) == \E i \in 1..Len(ph) : Contains(text, Token(ph[i][1]))

\* what the substitution owes for one paragraph
SubstitutedParagraph(before, after, ph) ==
    IF HasToken(ParagraphText(before), ph)
    THEN /\ Len(after) = Len(before)
         /\ after[1] = Substituted(ParagraphText(before), ph, 1)
         /\ \A i \in 2..Len(after) : after[i] = <<>>
    ELSE after = before

SubstitutedPart(before, after, ph) ==
    /\ Len(after) = Len(before)
    /\ \A j \in 1..Len(before) : SubstitutedParagraph(before[j], after[j], ph)

\* C11: after an export_template that ran to its end every token of every header field is replaced
\* by the field's value in the body, header and footer paragraphs, however
\* the runs split it; a paragraph without a token keeps its runs; a
\* paragraph with one has its whole text in its first run and its other
\* runs empty.
C11_EveryTokenIsReplaced ==
    (phase \in {"export_template", "test_app_export_template"} /\ ~doc_error) =>
        /\ SubstitutedPart(template.body, doc.body, placeholders)
        /\ SubstitutedPart(template.header, doc.header, placeholders)
        /\ SubstitutedPart(template.footer, doc.footer, placeholders)

C13_CatalogLoadNeverFails ==
    [][phase' = "get_products" =>
        LET excel_file == IF returned'.file_path = None THEN DEFAULT_FILE_NAME
                          ELSE returned'.file_path
        IN  /\ ~returned'.raised
            /\ returned'.value.t = "list"
            /\ IF /\ returned'.file_path = None
                  /\ cache_file.t = "rows" /\ cache_file.v # <<>>
               THEN returned'.value.v = cache_file.v
               ELSE IF excel_files[excel_file].t = "rows"
               THEN returned'.value.v = excel_files[excel_file].v
               ELSE returned'.value.v = get_sample_products]_vars

\* the catalog was loaded from a malformed default spreadsheet while the
\* cache held an empty list
C13_Witness ==
    /\ phase = "get_products"
    /\ returned.file_path = None
    /\ cache_file = Holding(<<>>)
    /\ excel_files[DEFAULT_FILE_NAME] = Unreadable
    /\ returned.value = PyList(get_sample_products)

(***************************************************************************)
(* Properties of the quantities of the ledger                              *)
(***************************************************************************)
\* the cell of a row under a column of the window ("" when the row is short)
CellOf(row, name) ==
    IF ColumnOf(docType, name) <= Len(row.values)
    THEN row.values[ColumnOf(docType, name)] ELSE <<>>

\* the text shows a positive integer, alone or followed by its unit
PositiveQty(cell) ==
    /\ FirstWord(cell) # <<>>
    /\ AllDigits(FirstWord(cell))
    /\ DigitsVal(FirstWord(cell)) > 0

\* C14: in every reachable state of a window every ledger row has a quantity
\* that is a positive integer, whatever sequence of add, select-all,
\* in-place edit, catalog upload and document autofill produced it.
C14_QuantityIsPositive ==
    \A i \in 1..Len(item_tree) : PositiveQty(CellOf(item_tree[i], "Qty"))

\* C15: an in-place edit of the Qty of a row is applied only when the entered
\* text parses to a positive integer; for any other text (empty, non-numeric,
\* zero, negative, decimal, digits mixed with other characters) the edit is
\* rejected and the row keeps its prior quantity; and a column other than
\* Qty, Unit Price and Weight is not edited.
C15_QtyEditNeedsAPositiveInteger ==
    [][\A i \in 1..MaxRows, c \in 1..7, text \in EditTexts :
          on_double_click(i, c, text) =>
              /\ (/\ get_treeview_columns(docType)[c] = "Qty"
                  /\ ~(PyInt(text).ok /\ PyInt(text).v > 0))
                     => item_tree' = item_tree
              /\ get_treeview_columns(docType)[c] \notin {"Qty", "Unit Price", "Weight"}
                     => item_tree' = item_tree]_vars

(***************************************************************************)
(* Properties of the removal and of the moves                              *)
(***************************************************************************)
\* how many rows of the ledger show the part number
RowsOf(tree, part) == Cardinality({i \in 1..Len(tree) : tree[i].values[1] = part})

\* how many products of selected_items have the part number
ItemsOf(items, part) == Cardinality({i \in 1..Len(items) : items[i].PartNumber = part})

PartNumbers == {P001.PartNumber, P002.PartNumber, P006.PartNumber}

\* C16: with two or more ledger rows and a non-empty selection,
\* remove_selected_item removes exactly the selected rows, keeps every other
\* row in its previous relative order, and removes from selected_items
\* exactly the products of the removed rows.
C16_RemoveTakesTheSelectedRows ==
    [][(phase' = "remove" /\ Len(item_tree) >= 2 /\ Selection(item_tree) # {}) =>
          /\ item_tree' = Without(item_tree, Selection(item_tree), 1)
          /\ \A part \in PartNumbers :
                ItemsOf(selected_items', part) + RowsOf(item_tree, part)
                    = ItemsOf(selected_items, part) + RowsOf(item_tree', part)]_vars

\* the ledger with the rows at i and j exchanged
SwapAt(tree, i, j) ==
    [k \in 1..Len(tree) |-> IF k = i THEN tree[j] ELSE IF k = j THEN tree[i] ELSE tree[k]]

\* each selected row in turn, first to last: nothing when it is first,
\* otherwise exchanged with the row above it
RECURSIVE SwapsUp(_, _)
SwapsUp(tree, i) ==
    IF i > Len(tree) THEN tree
    ELSE IF tree[i].sel /\ i > 1 THEN SwapsUp(SwapAt(tree, i, i - 1), i + 1)
    ELSE SwapsUp(tree, i + 1)

\* each selected row in turn, last to first: nothing when it is last,
\* otherwise exchanged with the row below it
RECURSIVE SwapsDown(_, _)
SwapsDown(tree, i) ==
    IF i < 1 THEN tree
    ELSE IF tree[i].sel /\ i < Len(tree) THEN SwapsDown(SwapAt(tree, i, i + 1), i - 1)
    ELSE SwapsDown(tree, i - 1)

IsPermutation(a, b) ==
    /\ Len(a) = Len(b)
    /\ \A i \in 1..Len(a) :
          Cardinality({k \in 1..Len(a) : a[k] = a[i]})
              = Cardinality({k \in 1..Len(b) : b[k] = a[i]})

\* C17: move_item_up (move_item_down) does nothing for a selected row that
\* is already first (last), and otherwise exchanges the selected row with the
\* row above (below) it while every other row keeps its position; with
\* several rows selected this is done for each of them in turn, first to last
\* (last to first); and the ledger after a move is a permutation of the
\* ledger before it.
C17_MoveSwapsWithTheNeighbour ==
    [][/\ phase' = "move_up" =>
            /\ item_tree' = SwapsUp(item_tree, 1)
            /\ \A i \in 1..Len(item_tree) : Selection(item_tree) = {i} =>
                  item_tree' = IF i = 1 THEN item_tree
                               ELSE SwapAt(item_tree, i, i - 1)
       /\ phase' = "move_down" =>
            /\ item_tree' = SwapsDown(item_tree, Len(item_tree))
            /\ \A i \in 1..Len(item_tree) : Selection(item_tree) = {i} =>
                  item_tree' = IF i = Len(item_tree) THEN item_tree
                               ELSE SwapAt(item_tree, i, i + 1)
       /\ phase' \in {"move_up", "move_down"} =>
            IsPermutation(item_tree, item_tree')]_vars

\* rows 2 and 3 of a ledger were selected and moved up past the first row
C17_Witness ==
    /\ phase = "move_up"
    /\ Len(item_tree) = 3
    /\ Selection(item_tree) = {1, 2}
    /\ item_tree[3].values = EditedLedger(docType, 3)[1].values
    /\ item_tree[1].values = EditedLedger(docType, 3)[2].values

(***************************************************************************)
(* Properties of the currency switch of the ledger                         *)
(***************************************************************************)
\* the rates a switch can use: none, the live rate, the static rate
SwitchRates == {DblFromInt(1), StaticRate(USD)}
                  \cup {DblFromRatio(r, 10000) : r \in LiveRates}

\* the row after the switch: its Unit Price is the number in it times the
\* rate, shown with the target currency, and no other cell differs; a row
\* without a number for a price is as it was
Switched(before, after, c, rate, target) ==
    /\ Len(after) = Len(before)
    /\ \A k \in 1..Len(before) : k # c => after[k] = before[k]
    /\ c <= Len(before) =>
          IF PriceIn(before[c]).ok
          THEN after[c] \in {format_price(DblMul(PriceIn(before[c]).v, rate), target),
                             format_currency(DblMul(PriceIn(before[c]).v, rate), target)}
          ELSE after[c] = before[c]

\* C18: in each of the three document types a currency switch rewrites the
\* Unit Price of every ledger row to its numeric part times the rate, shown
\* with the target currency, leaves every other column of every row as it
\* was, and skips the rows whose price has no numeric value.
C18_SwitchRepricesUnitPrice ==
    [][phase' = "currency" =>
          /\ Len(item_tree') = Len(item_tree)
          /\ \E rate \in SwitchRates :
                \A i \in 1..Len(item_tree) :
                    Switched(item_tree[i].values, item_tree'[i].values,
                             ColumnOf(docType, "Unit Price"), rate, currency_unit')]_vars

(***************************************************************************)
(* Properties of the export                                                *)
(***************************************************************************)
\* the window requires a customer and a document date, and one is missing
MissingHeader ==
    docType # "material" /\ (Strip(customer) = <<>> \/ Strip(doc_date) = <<>>)

\* the quantity cell of the row does not start with an integer
NonNumericQty(row) == ~PyInt(FirstWord(CellOf(row, "Qty"))).ok

\* C19: an export attempted with a required header field (customer or
\* document date) missing, or with a ledger row whose quantity is
\* non-numeric, is aborted with a blocking dialog and writes nothing: no
\* output document and no header-log record.
C19_InvalidExportWritesNothing ==
    [][(/\ phase' = "export"
        /\ \/ MissingHeader
           \/ \E i \in 1..Len(item_tree) : NonNumericQty(item_tree[i]))
       => /\ dialog' \in {"Export Failed", "No Valid Data", "No Data"}
          /\ exported' = <<>>
          /\ log' = log]_vars

(***************************************************************************)
(* Properties of the item table                                            *)
(***************************************************************************)
\* the table has its old header row and below it one row per item, in
\* order, whose first four cells are the index, the part number, the
\* description and the quantity
HoldsTheItems(before, after, data) ==
    /\ after[1] = before[1]
    /\ Len(after) = 1 + Len(data)
    /\ \A i \in 1..Len(data) :
          /\ Len(after[i + 1]) >= 4
          /\ after[i + 1][1] = IntStr(i)
          /\ after[i + 1][2] = StrOf(data[i]["Part Number"])
          /\ after[i + 1][3] = StrOf(data[i]["Description"])
          /\ after[i + 1][4] = StrOf(data[i]["Qty"])

\* C20 as stated: populate_item_table keeps the header row of the marker
\* table, removes every body row that was there before, and appends exactly
\* one row per item, in order, whose first four cells are the 1-based index,
\* the part number, the description and the quantity; applied twice with the
\* same items it yields the same table as applied once.
C20_TableHoldsTheItems ==
    [][(phase' = "populate_item_table" /\ FirstItemTable(docType, tables) # 0) =>
          /\ HoldsTheItems(tables[FirstItemTable(docType, tables)],
                           tables'[FirstItemTable(docType, tables)], export_data)
          /\ phase = "populate_item_table" => tables' = tables]_vars

\* C20, for a marker table of four columns or more: the header row is kept,
\* the body rows that were there are removed, one row per item is appended
\* in order with the index, the part number, the description and the
\* quantity in its first four cells, no other table changes, and a second
\* application with the same items changes nothing.  In a marker table of
\* fewer than four columns the appended rows stay empty.
C20_WideTableHoldsTheItems ==
    [][(phase' = "populate_item_table" /\ FirstItemTable(docType, tables) # 0) =>
          /\ Len(tables[FirstItemTable(docType, tables)][1]) >= 4 =>
                HoldsTheItems(tables[FirstItemTable(docType, tables)],
                              tables'[FirstItemTable(docType, tables)], export_data)
          /\ Len(tables[FirstItemTable(docType, tables)][1]) < 4 =>
                /\ Len(tables'[FirstItemTable(docType, tables)]) = 1 + Len(export_data)
                /\ \A i \in 2..(1 + Len(export_data)), k \in 1..3 :
                      tables'[FirstItemTable(docType, tables)][i][k] = <<>>
          /\ \A t \in 1..Len(tables) :
                t # FirstItemTable(docType, tables) => tables'[t] = tables[t]
          /\ phase = "populate_item_table" => tables' = tables]_vars

\* the five-column table of a template, which had two rows below its header,
\* holds the two items of the export
C20_Witness ==
    /\ phase = "populate_item_table"
    /\ ~doc_error
    /\ Len(tables) = 3
    /\ tables[2][1] = ItemTable5[1]
    /\ export_data = <<Item2, Item1>>
    /\ Len(tables[2]) = 3
    /\ tables[2][2][2] = Item2["Part Number"].v
    /\ tables[3] = ItemTable4

(***************************************************************************)
(* Properties of two writers at the header log                             *)
(***************************************************************************)
\* the writer that wrote last
LastWriter == IF writers[1].wrote_at > writers[2].wrote_at THEN 1 ELSE 2

\* C21: with two writers that each load the header log and then rewrite it,
\* the stored log is the list written by the last writer; when both loads
\* come before both writes the record the first writer appended is not in
\* the final log; and no interleaving leaves a file that mixes the lists of
\* the two writers.
C21_LastWriterWins ==
    (/\ writers # <<>>
     /\ writers[1].pc = "done" /\ writers[2].pc = "done"
     /\ writers[1].wrote_at > 0 /\ writers[2].wrote_at > 0)
    => /\ file = Serialised(InHand(LastWriter))
       /\ (\A w, v \in Writers : writers[w].loaded_at < writers[v].wrote_at)
             => \A i \in 1..Len(load_from_json(file)) :
                   load_from_json(file)[i] # writers[3 - LastWriter].entry


\* the two-digit year a document number or a '%m-%y' text ends with
YearOf(text) == DigitsVal(SubSeq(text, Len(text) - 1, Len(text)))

\* C22: the sequence is per calendar period: when the last record's number
\* carries an earlier year than the current date, the number generated next
\* has sequence 1; when it carries the current month and year, the sequence
\* is the last one plus 1.
C22_SequenceRestartsEachYear ==
    (phase = "generate" /\ log # <<>>
     /\ IsNumbered(GetOr(log[Len(log)], "Delivery Note No."))) =>
        LET last_dn == GetOr(log[Len(log)], "Delivery Note No.")
        IN  /\ YearOf(last_dn) < YearOf(today) =>
                delivery_no_var = <<"D", "N", "0", "0", "1", "-">> \o today
            /\ SubSeq(last_dn, Len(last_dn) - 4, Len(last_dn)) = today =>
                delivery_no_var = <<"D", "N">>
                    \o FmtInt(DigitsVal(SeqDigits(last_dn)) + 1, 3)
                    \o <<"-">> \o today


\* C23: after any sequence of add, select-all, remove, move, reset and upload,
\* selected_items is as long as the ledger and selected_items[i] is the
\* product shown by row i.
C23_SelectedItemsFollowTheLedger ==
    /\ Len(selected_items) = Len(item_tree)
    /\ \A i \in 1..Len(item_tree) :
          selected_items[i].PartNumber = item_tree[i].values[1]


\* the positions of the delivery notes in the header log
NotesIn(records) ==
    {i \in 1..Len(records) : "Delivery Note No." \in DOMAIN records[i]}

\* C24: a number generate_delivery_note_number has just made is the number of
\* no stored record, and two delivery notes saved one after the other, with
\* documents of the other types between them or not, carry different
\* numbers.
C24_NumbersAreFresh ==
    /\ phase = "generate" =>
          \A i \in NotesIn(log) : log[i]["Delivery Note No."] # delivery_no_var
    /\ \A i, j \in NotesIn(log) :
          (i < j /\ log[i]["Delivery Note No."] # <<>>
           /\ \A k \in NotesIn(log) : ~(i < k /\ k < j)) =>
              log[i]["Delivery Note No."] # log[j]["Delivery Note No."]


\* the document number a stored record carries, under either of its keys
NumberOf(record) ==
    IF "Delivery Note No." \in DOMAIN record THEN record["Delivery Note No."]
    ELSE GetOr(record, "Delivery_No")

\* the (customer, project, document number) key of a stored record
KeyOf(record) ==
    <<GetOr(record, "Customer"),
      IF "Project" \in DOMAIN record THEN record["Project"]
      ELSE GetOr(record, "Project_Name"),
      NumberOf(record)>>

\* C25: after any sequence of saves and appends on the header log, no two
\* stored records that carry a document number share the same (customer,
\* project, document number) key.
C25_KeysAreUnique ==
    \A i, j \in 1..Len(log) :
        (i < j /\ NumberOf(log[i]) # <<>>) => KeyOf(log[i]) # KeyOf(log[j])


(***************************************************************************)
(* Properties of the currency round trip and of the displayed prices       *)
(***************************************************************************)
\* C26: a switch from SAR to USD followed by the switch back to SAR leaves
\* every ledger row with the Unit Price it displayed before the two
\* switches.
C26_RoundTripRestoresThePrice ==
    [][(phase' = "currency" /\ currency_unit = SAR /\ currency_unit' = USD) =>
          RepriceFrom(item_tree', 1, LedgerRate(SAR, None, 0), SAR) = item_tree]_vars


\* the products a ledger row can have been added from
Listed == {P001, P002, P006}

\* the rates a ledger in the currency can have been converted with
RatesOf(currency) == IF currency = SAR THEN {DblFromInt(1)} ELSE SwitchRates

\* the row displays the base price of its product times the rate, with the
\* label of the currency
PricedAt(row, rate, currency) ==
    \A p \in Listed :
        (row.values[1] = p.PartNumber
         /\ ColumnOf(docType, "Unit Price") <= Len(row.values)) =>
            CellOf(row, "Unit Price") \in
                {format_price(DblMul(PriceOf(p), rate), currency),
                 format_currency(DblMul(PriceOf(p), rate), currency)}

\* C27: while no cell has been edited by hand, every ledger row displays its
\* product's base SAR price converted to the selected currency and labelled
\* with it, rows added after a currency switch included: one rate and one
\* label for all the rows.
C27_RowsShowTheSelectedCurrency ==
    edits = 0 =>
        \E rate \in RatesOf(currency_unit) :
            \A i \in 1..Len(item_tree) : PricedAt(item_tree[i], rate, currency_unit)


(***************************************************************************)
(* Properties of the catalog upload                                        *)
(***************************************************************************)
\* C28: the upload of a new catalog spreadsheet replaces the catalog and the
\* search list only: the ledger rows, selected_items and the header fields
\* of the window are as they were.
C28_CatalogUploadKeepsTheLedger ==
    [][(phase' = "upload" /\ products' # products) =>
          /\ products' \in Uploads
          /\ combo_display_list' = build_combo_display_list(products')
          /\ UNCHANGED <<item_tree, selected_items, customer, doc_date>>]_vars


(***************************************************************************)
(* Properties of the Word export of the delivery window                    *)
(***************************************************************************)
\* the run showed a failure message box
ShowedFailure(boxes) ==
    \E i \in 1..Len(boxes) : boxes[i] \in {"Export Failed", "Error"}

\* the run showed a success message box
ShowedSuccess(boxes) == \E i \in 1..Len(boxes) : boxes[i] = "Success"

\* C29: a template export of the delivery window shows a failure dialog only
\* when it wrote no document and no header record, a success dialog only
\* when the document is saved, the header record is logged and the client
\* cache holds the note, and never both in one run.
C29_DialogsMatchWhatWasWritten ==
    [][phase' = "delivery_export_template" =>
          /\ ShowedFailure(shown') => documents' = documents /\ log' = log
          /\ ShowedSuccess(shown') =>
                /\ Len(documents') = Len(documents) + 1
                /\ \E i \in 1..Len(log') :
                      /\ GetEq(log'[i], "Delivery Note No.", Strip(delivery_no_var))
                      /\ i > Len(log)
                /\ \E i \in 1..Len(log') :
                      /\ GetEq(log'[i], "Delivery_No", Strip(delivery_no_var))
                      /\ GetEq(log'[i], "Customer", Strip(customer))
          /\ ~(ShowedFailure(shown') /\ ShowedSuccess(shown'))]_vars


(***************************************************************************)
(* Properties of the product cache                                         *)
(***************************************************************************)
\* C30: the product cache is written only with catalogs whose products all
\* have a Part Number and a Description, so that after any uploads and
\* restarts a window loads the cache and builds its search list without an
\* error.
C30_CacheHoldsLabelledProducts ==
    /\ cache_file.t = "rows" => \A i \in 1..Len(cache_file.v) : Labelled(cache_file.v[i])
    /\ phase # "init_raised"

====
